---- MODULE Spec2Model ----
(***************************************************************************)
(* A model of the transcript processor: BedrockCircuitBreaker              *)
(* (src/src/processor/circuit_breaker.py), RateLimiter and BedrockLLMClient*)
(* (src/src/processor/llm_client.py), DocumentGenerator                    *)
(* (src/src/processor/document_generator.py), TranscriptionParser          *)
(* (src/src/processor/transcription_parser.py), the processor's entry      *)
(* point (src/src/processor/main.py), the finalizer                        *)
(* (src/src/functions/finalizer/app.py) and the transcribe starter         *)
(* (src/src/functions/transcribe/app.py).                                  *)
(*                                                                         *)
(* Time is the value time.time() returns, in whole seconds, assumed not to *)
(* go backwards.  Every read of the clock in the source is a read of `now` *)
(* in the model; where the source reads the clock twice in one handler,    *)
(* the model lets the clock advance between the two reads.                 *)
(*                                                                         *)
(* Twelve specifications share the variables:                              *)
(*   Spec          the circuit breaker alone, driven by call, force_open   *)
(*                 and force_reset with an arbitrary wrapped function;     *)
(*   SpecLimiter   the rate limiter alone, driven by acquire;              *)
(*   SpecClient    BedrockLLMClient: invoke, invoke_with_json_output,      *)
(*                 invoke_with_streaming and reset_usage, with force_open  *)
(*                 and force_reset of the client's breaker;                *)
(*   SpecBurst     BedrockLLMClient.invoke alone, called more often;       *)
(*   SpecPipeline  one run of DocumentGenerator.generate_document;         *)
(*   SpecParser    one call of TranscriptionParser._extract_segments;      *)
(*   SpecChunker   one call of TranscriptionParser.chunk_transcription;    *)
(*   SpecMain      one run of main;                                        *)
(*   SpecFinalizer one call of update_tracking_with_retry;                 *)
(*   SpecHandler   one invocation of the finalizer's lambda_handler;       *)
(*   SpecStarter   one invocation of the transcribe starter's              *)
(*                 lambda_handler;                                         *)
(*   SpecGuarded   one run of generate_document with its model calls       *)
(*                 taken through the client's breaker and rate limiter.    *)
(* A backoff sleep of the retry loop lasts exactly its 2 ** attempt        *)
(* seconds and model.invoke answers at once; the time a caller lets pass   *)
(* is part of the action that models its next call.  The text of a         *)
(* transcript segment is modelled by its length in characters, and the     *)
(* full text of a transcript is the join of its segments' texts.           *)
(***************************************************************************)
EXTENDS Integers, Sequences, FiniteSets, TLC

\* ------------------------------------------------------------------ bounds
MaxThreshold == 3   \* failure_threshold ranges over 1..MaxThreshold
MaxTimeout == 2     \* timeout ranges over 1..MaxTimeout
MaxTime == 6        \* the breaker's clock stops advancing here
MaxDur == 1         \* longest run of a wrapped function, in seconds
MaxSkew == 1        \* longest gap between two clock reads of one handler
MaxCalls == 5       \* calls of BedrockCircuitBreaker.call in one behaviour
MaxRpm == 2         \* requests_per_minute ranges over 1..MaxRpm
MaxTpm == 2         \* tokens_per_minute ranges over 2..MaxTpm
MaxAcquires == 3    \* calls of RateLimiter.acquire in one behaviour
MaxOversleep == 1   \* time.sleep(s) returns after s..s+MaxOversleep seconds
MaxInvokes == 1     \* calls of the client's entry points in one behaviour
MaxBurst == 4       \* the same, in a behaviour without operator overrides
MaxRetries == 3     \* max_retries ranges over 0..MaxRetries
MaxChunks == 2      \* len(chunks) ranges over 1..MaxChunks
MaxItems == 4       \* results['items'] holds at most MaxItems items
MaxSegments == 4    \* parsed_data['segments'] holds at most MaxSegments
MaxAttempts == 3    \* max_attempts ranges over 0..MaxAttempts
MaxAdmitted == 1    \* a guarded run's call is admitted while fewer than
                    \* MaxAdmitted requests have reached the endpoint

\* ------------------------------------------------------------- the program
\* Python's None for the two timestamps (every real timestamp is >= 0).
None == -1

\* The default quota signatures of the breaker.
expected_errors ==
    { "ThrottlingException", "TooManyRequestsException",
      "ServiceQuotaExceededException", "ModelStreamErrorException",
      "ModelTimeoutException" }

\* The exceptions a wrapped function raises in the model.  An exception is
\* its type name and the set of signature strings its message contains.
Exceptions ==
    { [name |-> "ThrottlingException", msg |-> {}],
      [name |-> "ClientError", msg |-> {"ThrottlingException"}],
      [name |-> "ValidationException", msg |-> {}],
      [name |-> "ValueError", msg |-> {}] }

\* What a call hands back to its caller when nothing was raised.
NoError == [name |-> "", msg |-> {}]

\* The breaker's own rejection.
CircuitBreakerOpen == [name |-> "CircuitBreakerOpen", msg |-> {}]

VARIABLES
    now,                \* time.time()
    failure_threshold,  \* BedrockCircuitBreaker.failure_threshold
    timeout,            \* BedrockCircuitBreaker.timeout
    state,              \* BedrockCircuitBreaker.state
    failure_count,      \* BedrockCircuitBreaker.failure_count
    last_failure_time,  \* BedrockCircuitBreaker.last_failure_time
    last_success_time,  \* BedrockCircuitBreaker.last_success_time
    calls,              \* number of calls of BedrockCircuitBreaker.call made
    entry_state,        \* last call: the state it found on entry
    executed,           \* last call: was the wrapped function executed
    run_state,          \* last call: the state the function ran in
    func_error,         \* last call: what the function raised (NoError: returned)
    raised,             \* last call: what the call raised to its caller
    time_remaining,     \* last call: CircuitBreakerOpen.time_remaining
    consec,             \* history: executed calls in a row that raised a quota error
    since_ok,           \* history: quota errors since the last normal return or reset
    requests_per_minute,\* RateLimiter.requests_per_minute
    tokens_per_minute,  \* RateLimiter.tokens_per_minute
    request_times,      \* RateLimiter.request_times
    token_counts,       \* RateLimiter.token_counts: <<timestamp, token_count>>
    admissions,         \* history kept by SpecLimiter: <<timestamp,
                        \* estimated_tokens>> of every acquire
    called_at,          \* kept by SpecLimiter: the clock when the last
                        \* acquire was called
    max_retries,        \* BedrockLLMClient.max_retries
    pc,                 \* where the running invoke stands ("idle": none runs)
    estimated_tokens,   \* _invoke_internal: estimated_tokens
    attempt,            \* _invoke_internal: attempt
    last_exception,     \* _invoke_internal: last_exception (NoError: None)
    temperature,        \* BedrockLLMClient.model.model_kwargs["temperature"]
    total_usage,        \* BedrockLLMClient.total_usage
    temp_param,         \* invoke: the temperature argument (None: not given)
    original_temp,      \* _invoke_internal: original_temp (None: not assigned)
    issued,             \* history: the times of the model.invoke calls still
                        \* within the trailing window
    prompt_len,         \* len(prompt) of the running or last client call
    entry,              \* the entry point of the running or last client call
    entry_raised,       \* what that entry point raised to its caller
    streams,            \* number of calls of invoke_with_streaming made
    trace,              \* history: the steps of the running or last call
    attempts,           \* history: the times of the requests the running or
                        \* last call made to the model endpoint
    contacts,           \* history: requests to the model endpoint so far
    returned_usage,     \* history: sum of the TokenUsage values returned
                        \* since construction or the last reset_usage
    max_tokens,         \* BedrockLLMClient.max_tokens
    model_max_tokens,   \* BedrockLLMClient.model.model_kwargs["max_tokens"]
    p_pc,               \* generate_document: "idle" before the call, then
                        \* "running", at last "returned" or "raised"
    chunks,             \* generate_document: len(chunks)
    chunk_i,            \* the chunk being processed, counted from 1
    stage_results,      \* generate_document: stage_results
    chunk_outlines,     \* _process_multiple_chunks: chunk_outlines
    s3_objects,         \* the objects put into the output bucket
    next_stage,         \* the stage generate_document runs next
    total_tokens,       \* DocumentGenerationResult.total_tokens
    executions,         \* history: every stage execution of the run
    items,              \* _extract_segments: results['items'] with the speaker
                        \* speaker_map gives each pronunciation item
    item_i,             \* _extract_segments: the item the loop stands at
    current_segment,    \* _extract_segments: current_segment (item indices)
    current_start,      \* _extract_segments: current_start
    current_speaker,    \* _extract_segments: current_speaker
    end_time,           \* _extract_segments: end_time (None: unbound)
    parsed,             \* _extract_segments: segments
    x_pc,               \* _extract_segments: "idle", "loop", "returned"
    segments,           \* chunk_transcription: parsed_data['segments']
    full_text,          \* chunk_transcription: len(parsed_data['full_text'])
    max_tokens_per_chunk, \* TranscriptionParser.max_tokens
    seg_i,              \* _adaptive_chunking: the segment the loop stands at,
                        \* counted from 1
    current_chunk_segments, \* _adaptive_chunking: current_chunk_segments
    current_chunk_tokens,   \* _adaptive_chunking: current_chunk_tokens
    chunk_id,           \* _adaptive_chunking: chunk_id
    out_chunks,         \* the list chunk_transcription builds and returns
    c_pc,               \* chunk_transcription: "idle", "loop", "returned"
    overlap_len,        \* history: the number of overlap segments the
                        \* current chunk was started with
    overlaps,           \* history: that number for every chunk of out_chunks
    breaks,             \* history: for every segment the loop has handled,
                        \* the three conditions and whether a chunk was closed
    environ,            \* os.environ: the required variables that are set
    optional_ok,        \* os.environ: do the optional integers parse
    m_pc,               \* process_video_transcription / main: position
    config_loaded,      \* process_video_transcription: 'config' in locals()
    tracking,           \* history: the statuses update_dynamodb_status was
                        \* called with
    generated,          \* did generate_document return normally
    result,             \* what process_video_transcription returned
    exit_code,          \* the argument of sys.exit (None: not exited)
    tracking_table,     \* finalizer: is TRACKING_TABLE set
    max_attempts,       \* update_tracking_with_retry: max_attempts
    f_attempt,          \* update_tracking_with_retry: attempt
    f_pc,               \* update_tracking_with_retry: "idle", "try", "done"
    update_calls,       \* history: the outcome of every table.update_item
    sleeps,             \* history: the argument of every time.sleep, in
                        \* tenths of a second
    f_outcome,          \* what update_tracking_with_retry returned or raised
    l_event,            \* finalizer lambda_handler: the event
    l_pc,               \* lambda_handler: "idle", "tracking", "metrics",
                        \* "returned"
    final_status,       \* lambda_handler: final_status
    l_results,          \* lambda_handler: results
    l_steps,            \* history: the steps lambda_handler has called, in
                        \* order
    l_returns,          \* history: how each step ended
    l_status,           \* the statusCode lambda_handler returned (None: none)
    t_event,            \* transcribe starter lambda_handler: the event
    t_pc,               \* its position: "idle", "tracking", "returned"
    t_calls,            \* history: the calls it has made, in order
    job_details,        \* how start_transcription_job ended ("none": not
                        \* called)
    update_success,     \* how update_tracking_record ended
    t_status,           \* the statusCode it returned (None: none)
    open_throughout     \* history: the breaker was OPEN with cooldown left
                        \* at every stage call of the run so far

breakerVars == <<failure_threshold, timeout, state, failure_count,
                 last_failure_time, last_success_time>>
callVars == <<calls, entry_state, executed, run_state, func_error, raised,
              time_remaining, consec, since_ok>>
limiterVars == <<requests_per_minute, tokens_per_minute, request_times,
                 token_counts, admissions, called_at>>
clientVars == <<max_retries, pc, estimated_tokens, attempt, last_exception,
                temperature, total_usage, temp_param, original_temp, issued,
                prompt_len, entry, entry_raised, streams, trace, attempts, contacts,
                returned_usage>>
pipeVars == <<max_tokens, model_max_tokens, p_pc, chunks, chunk_i,
              stage_results, chunk_outlines, s3_objects, next_stage,
              total_tokens, executions>>
parseVars == <<items, item_i, current_segment, current_start, current_speaker,
               end_time, parsed, x_pc>>
chunkVars == <<segments, full_text, max_tokens_per_chunk, seg_i,
               current_chunk_segments, current_chunk_tokens, chunk_id,
               out_chunks, c_pc, overlap_len, overlaps, breaks>>
mainVars == <<environ, optional_ok, m_pc, config_loaded, tracking, generated,
              result, exit_code>>
finVars == <<tracking_table, max_attempts, f_attempt, f_pc, update_calls,
             sleeps, f_outcome>>
handlerVars == <<l_event, l_pc, final_status, l_results, l_steps, l_returns,
                 l_status>>
starterVars == <<t_event, t_pc, t_calls, job_details, update_success,
                 t_status>>
lamVars == <<handlerVars, starterVars, open_throughout>>
docVars == <<parseVars, chunkVars, mainVars, finVars, lamVars>>
llmVars == <<now, breakerVars, callVars, limiterVars, clientVars, pipeVars>>
vars == <<llmVars, docVars>>

\* A bug: every exception of the function is counted as a quota failure.
Mut_is_quota_error_any(e) == TRUE

\* any(err in error_str or err == error_name for err in self.expected_errors)
is_quota_error(e) ==
    \E err \in expected_errors : err \in e.msg \/ err = e.name

\* A bug: the reset is attempted only after more than `timeout` seconds.
Mut_should_attempt_reset_strict(lft, t) ==
    IF lft = None THEN TRUE ELSE t - lft > timeout

_should_attempt_reset(lft, t) ==
    IF lft = None THEN TRUE ELSE t - lft >= timeout

\* A bug: the elapsed time is reported instead of the remaining time.
MutTimeRemaining_elapsed(lft, t) == t - lft

\* Line 119: time_remaining, from a clock read t.
TimeRemaining(lft, t) == timeout - (t - lft)

\* A bug: the breaker opens one failure late.
Mut_record_failure_late(fc, st, t) ==
    [failure_count |-> fc + 1,
     last_failure_time |-> t,
     state |-> IF fc + 1 > failure_threshold THEN "OPEN" ELSE st]

\* The three fields _record_failure writes, from their values before.
_record_failure(fc, st, t) ==
    [failure_count |-> fc + 1,
     last_failure_time |-> t,
     state |-> IF fc + 1 >= failure_threshold THEN "OPEN" ELSE st]

_reset ==
    [failure_count |-> 0, last_failure_time |-> None, state |-> "CLOSED"]

\* Lines 114-117: the state the wrapped function runs in.
AdmittedState(st) == IF st = "OPEN" THEN "HALF_OPEN" ELSE st

\* A bug: a successful trial does not close the breaker.
MutOnReturn_no_reset(st, fc, lft, t) ==
    [failure_count |-> fc, last_failure_time |-> lft, state |-> st,
     last_success_time |-> t]

\* Lines 129-137: the function returned at time t, having run in state st.
OnReturn(st, fc, lft, t) ==
    IF st = "HALF_OPEN"
    THEN [failure_count |-> _reset.failure_count,
          last_failure_time |-> _reset.last_failure_time,
          state |-> _reset.state,
          last_success_time |-> t]
    ELSE [failure_count |-> fc, last_failure_time |-> lft, state |-> st,
          last_success_time |-> t]

\* A bug: a failed trial is counted but does not restart the cooldown.
MutOnRaise_keep_time(e, st, fc, lft, t) ==
    IF is_quota_error(e)
    THEN [failure_count |-> fc + 1,
          last_failure_time |-> IF st = "HALF_OPEN" THEN lft ELSE t,
          state |-> IF fc + 1 >= failure_threshold THEN "OPEN" ELSE st]
    ELSE [failure_count |-> fc, last_failure_time |-> lft, state |-> st]

\* Lines 139-161: the function raised e at time t, having run in state st.
OnRaise(e, st, fc, lft, t) ==
    IF is_quota_error(e)
    THEN _record_failure(fc, st, t)
    ELSE [failure_count |-> fc, last_failure_time |-> lft, state |-> st]

\* ----------------------------------------------------------- RateLimiter
\* The length of the sliding window, in seconds.
Window == 60

\* The defaults of RateLimiter.__init__.
DefaultRpm == 10
DefaultTpm == 100000

\* The breaker BedrockLLMClient.__init__ builds.
ClientThreshold == 5
ClientTimeout == 300

\* Line 82: [t for t in self.request_times if t > one_minute_ago]
CleanRequests(rt, t) == SelectSeq(rt, LAMBDA x : x > t - Window)

\* Line 83: [(t, c) for t, c in self.token_counts if t > one_minute_ago]
CleanTokens(tc, t) == SelectSeq(tc, LAMBDA p : p[1] > t - Window)

\* Line 94: sum(c for _, c in self.token_counts)
RECURSIVE SumTokens(_)
SumTokens(tc) == IF tc = <<>> THEN 0 ELSE tc[1][2] + SumTokens(Tail(tc))

\* A bug: one request too many is admitted before the limiter sleeps.
MutAfterRequestCheck_late(rt, t, over) ==
    IF Len(rt) > requests_per_minute
    THEN LET sleep_time == Window - (t - rt[1])
         IN IF sleep_time > 0 THEN t + sleep_time + over ELSE t
    ELSE t

\* Lines 86-91: the clock after the request-rate check, entered at time t
\* with the cleaned list rt; a sleep may last `over` seconds too long.
AfterRequestCheck(rt, t, over) ==
    IF Len(rt) >= requests_per_minute
    THEN LET sleep_time == Window - (t - rt[1])
         IN IF sleep_time > 0 THEN t + sleep_time + over ELSE t
    ELSE t

\* Lines 94-102: the clock after the token-rate check, entered at time t
\* with the cleaned list tc.
AfterTokenCheck(tc, t, est_tokens, over) ==
    IF SumTokens(tc) + est_tokens > tokens_per_minute
    THEN IF tc # <<>>
         THEN LET sleep_time == Window - (t - tc[1][1])
              IN IF sleep_time > 0 THEN t + sleep_time + over ELSE t
         ELSE t
    ELSE t

\* RateLimiter.acquire called at time t: the two lists and the clock when
\* it returns.
Acquire(rt, tc, t, est_tokens, over1, over2) ==
    LET rt1 == CleanRequests(rt, t)
        tc1 == CleanTokens(tc, t)
        t1 == AfterRequestCheck(rt1, t, over1)
        t2 == AfterTokenCheck(tc1, t1, est_tokens, over2)
    IN [request_times |-> Append(rt1, t2),
        token_counts |-> IF est_tokens > 0
                         THEN Append(tc1, <<t2, est_tokens>>)
                         ELSE tc1,
        now |-> t2]

\* RateLimiter.__init__ with the limits given by the caller.
InitLimiter ==
    /\ requests_per_minute \in 1..MaxRpm
    /\ tokens_per_minute \in 2..MaxTpm
    /\ request_times = <<>>
    /\ token_counts = <<>>
    /\ admissions = <<>>
    /\ called_at = None

\* RateLimiter() as BedrockLLMClient.__init__ builds it.
InitClientLimiter ==
    /\ requests_per_minute = DefaultRpm
    /\ tokens_per_minute = DefaultTpm
    /\ request_times = <<>>
    /\ token_counts = <<>>
    /\ admissions = <<>>
    /\ called_at = None

\* BedrockCircuitBreaker(failure_threshold=5, timeout=300)
InitClientBreaker ==
    /\ failure_threshold = ClientThreshold
    /\ timeout = ClientTimeout
    /\ failure_count = 0
    /\ last_failure_time = None
    /\ state = "CLOSED"
    /\ last_success_time = None

\* The time a caller lets pass between two calls of acquire, in seconds.
LimiterDelays == {0, 30, 59}

\* RateLimiter.acquire(estimated_tokens), called d seconds after the last
\* operation, with estimated_tokens within the token budget.
acquire ==
    /\ Len(admissions) < MaxAcquires
    /\ \E d \in LimiterDelays, est_tokens \in 0..tokens_per_minute,
          over1 \in 0..MaxOversleep, over2 \in 0..MaxOversleep :
        LET r == Acquire(request_times, token_counts, now + d,
                         est_tokens, over1, over2)
        IN /\ request_times' = r.request_times
           /\ token_counts' = r.token_counts
           /\ now' = r.now
           /\ admissions' = Append(admissions, <<r.now, est_tokens>>)
           /\ called_at' = now + d
    /\ UNCHANGED <<requests_per_minute, tokens_per_minute, breakerVars,
                   callVars, clientVars, pipeVars, docVars>>

\* ------------------------------------------------------- BedrockLLMClient
\* max_retries as process_video_transcription passes it (and the default).
DefaultMaxRetries == 3

\* The time a caller lets pass before a call of the client, in seconds.
ClientDelays == {0, 300}

\* len(prompt) of the prompts the callers send and len(response_text) of
\* the answers the model gives, in characters; no system prompt is passed.
PromptLengths == {4, 9}
ResponseLengths == {5}

\* The one prompt of a caller that repeats its call.
BurstPromptLengths == {4}

\* estimate_tokens(text), from len(text).
estimate_tokens(text_len) == text_len \div 4

\* The sampling temperature the client is built with, and the one a caller
\* may pass to invoke, in tenths.
DefaultTemperature == 7
OverrideTemperature == 3

\* What model.invoke and model.stream raise in the model.
ModelErrors ==
    Exceptions \cup { [name |-> "InvalidRequestException", msg |-> {}] }

\* `raise last_exception` with last_exception = None.
RaiseNone == [name |-> "TypeError", msg |-> {}]

\* json.JSONDecodeError
JSONDecodeError == [name |-> "JSONDecodeError", msg |-> {}]

\* The answers of the model: a text is the sequence of its pieces: "fence"
\* is a code fence of three backquotes, "json" that word, " " white space,
\* "{}" a JSON value and "x" any other text.
Responses ==
    { <<"{}">>,
      <<"fence", "json", "{}", "fence">>,
      <<"fence", " ", "{}", " ", "fence", " ">>,
      <<"x">>,
      <<"fence", "json", "x", "fence">>,
      <<>> }

\* str.strip()
RECURSIVE LStrip(_)
LStrip(s) ==
    IF s # <<>> /\ Head(s) = " " THEN LStrip(Tail(s)) ELSE s

RECURSIVE RStrip(_)
RStrip(s) ==
    IF s # <<>> /\ s[Len(s)] = " "
    THEN RStrip(SubSeq(s, 1, Len(s) - 1))
    ELSE s

Strip(s) == RStrip(LStrip(s))

\* Lines 495-505: the text handed to json.loads.
StripFence(response_text) ==
    LET j0 == Strip(response_text)
        j1 == IF Len(j0) >= 2 /\ j0[1] = "fence" /\ j0[2] = "json"
              THEN SubSeq(j0, 3, Len(j0))
              ELSE IF Len(j0) >= 1 /\ j0[1] = "fence"
                   THEN SubSeq(j0, 2, Len(j0))
                   ELSE j0
        j2 == IF Len(j1) >= 1 /\ j1[Len(j1)] = "fence"
              THEN SubSeq(j1, 1, Len(j1) - 1)
              ELSE j1
    IN Strip(j2)

\* json.loads(json_text) returns.
ParsesAsJson(json_text) == json_text = <<"{}">>

\* `sub in name` for the type names of ModelErrors and the two substrings
\* _invoke_internal looks for.
NameContains(name, sub) ==
    \/ name = sub
    \/ (name = "InvalidRequestException" /\ sub = "InvalidRequest")

\* A bug: only one of the two substrings is looked for.
MutIsValidationError_one(e) ==
    NameContains(e.name, "ValidationException")

\* Line 377: the errors that are not retried.
IsValidationError(e) ==
    \/ NameContains(e.name, "ValidationException")
    \/ NameContains(e.name, "InvalidRequest")

RECURSIVE Pow2(_)
Pow2(k) == IF k = 0 THEN 1 ELSE 2 * Pow2(k - 1)

\* The model.invoke calls of `log` made in the 60 seconds up to time t.
Trailing(log, t) == SelectSeq(log, LAMBDA x : x > t - Window)

ZeroUsage == [input_tokens |-> 0, output_tokens |-> 0]

\* TokenUsage added field by field.
AddUsage(u, v) ==
    [input_tokens |-> u.input_tokens + v.input_tokens,
     output_tokens |-> u.output_tokens + v.output_tokens]

\* BedrockLLMClient.__init__ (the fields the model follows) with
\* max_retries = retries.
InitClientWith(retries) ==
    /\ max_retries \in retries
    /\ pc = "idle"
    /\ estimated_tokens = 0
    /\ attempt = 0
    /\ last_exception = NoError
    /\ temperature = DefaultTemperature
    /\ total_usage = ZeroUsage
    /\ temp_param = None
    /\ original_temp = None
    /\ issued = <<>>
    /\ prompt_len = 0
    /\ entry = "none"
    /\ entry_raised = NoError
    /\ streams = 0
    /\ trace = <<>>
    /\ attempts = <<>>
    /\ contacts = 0
    /\ returned_usage = ZeroUsage

InitClient == InitClientWith({DefaultMaxRetries})

\* circuit_breaker.call returns or raises: the breaker's fields and what
\* the caller of invoke sees.
BreakerReturns ==
    LET r == OnReturn(state, failure_count, last_failure_time, now)
    IN /\ state' = r.state
       /\ failure_count' = r.failure_count
       /\ last_failure_time' = r.last_failure_time
       /\ last_success_time' = r.last_success_time
       /\ func_error' = NoError
       /\ raised' = NoError
       /\ consec' = 0
       /\ since_ok' = 0

BreakerRaises(e) ==
    LET r == OnRaise(e, state, failure_count, last_failure_time, now)
    IN /\ state' = r.state
       /\ failure_count' = r.failure_count
       /\ last_failure_time' = r.last_failure_time
       /\ func_error' = e
       /\ raised' = e
       /\ consec' = IF is_quota_error(e) THEN consec + 1 ELSE 0
       /\ since_ok' = IF is_quota_error(e) THEN since_ok + 1 ELSE since_ok
       /\ UNCHANGED last_success_time

\* invoke, lines 293-306, and circuit_breaker.call, lines 114-125: the
\* breaker rejects the call.
InvokeRejected(t) ==
    /\ state = "OPEN"
    /\ ~_should_attempt_reset(last_failure_time, t)
    /\ \E skew \in 0..MaxSkew :
        /\ now' = t + skew
        /\ time_remaining' = TimeRemaining(last_failure_time, t + skew)
    /\ executed' = FALSE
    /\ run_state' = "none"
    /\ func_error' = NoError
    /\ raised' = CircuitBreakerOpen
    /\ entry_raised' = CircuitBreakerOpen
    /\ trace' = <<"reject">>
    /\ UNCHANGED <<state, failure_count, last_failure_time, last_success_time,
                   consec, since_ok, pc, temp_param>>

\* A bug: the rate limiter is not asked before the model is called.
MutInvokeAdmitted_no_acquire(t, temps) ==
    /\ ~(state = "OPEN" /\ ~_should_attempt_reset(last_failure_time, t))
    /\ now' = t
    /\ state' = AdmittedState(state)
    /\ executed' = TRUE
    /\ run_state' = AdmittedState(state)
    /\ func_error' = NoError
    /\ raised' = NoError
    /\ entry_raised' = NoError
    /\ time_remaining' = None
    /\ trace' = <<"admit">>
    /\ pc' = IF max_retries > 0 THEN "attempt" ELSE "acquire"
    /\ temp_param' = None
    /\ UNCHANGED <<failure_count, last_failure_time, last_success_time,
                   consec, since_ok>>

\* invoke, lines 293-303, and circuit_breaker.call, lines 114-129: the
\* breaker admits the call and _invoke_internal starts; the caller passes
\* one of `temps` as temperature.
InvokeAdmitted(t, temps) ==
    /\ ~(state = "OPEN" /\ ~_should_attempt_reset(last_failure_time, t))
    /\ now' = t
    /\ state' = AdmittedState(state)
    /\ executed' = TRUE
    /\ run_state' = AdmittedState(state)
    /\ func_error' = NoError
    /\ raised' = NoError
    /\ entry_raised' = NoError
    /\ time_remaining' = None
    /\ trace' = <<"admit">>
    /\ pc' = "acquire"
    /\ \E v \in temps : temp_param' = v
    /\ UNCHANGED <<failure_count, last_failure_time, last_success_time,
                   consec, since_ok>>

\* BedrockLLMClient.invoke is called, through entry point ep and for at
\* most the limit-th time, with a prompt of one of the lengths `prompts`
\* and one of `temps` as temperature.
InvokeFrom(ep, limit, temps, prompts) ==
    /\ pc = "idle"
    /\ calls + streams < limit
    /\ calls' = calls + 1
    /\ entry_state' = state
    /\ entry' = ep
    /\ \E n \in prompts : prompt_len' = n
    /\ attempts' = <<>>
    /\ \E d \in ClientDelays :
        InvokeRejected(now + d) \/ InvokeAdmitted(now + d, temps)
    /\ UNCHANGED <<failure_threshold, timeout, limiterVars, max_retries,
                   estimated_tokens, attempt, last_exception, temperature,
                   total_usage, original_temp, issued, streams, contacts,
                   returned_usage, pipeVars, docVars>>

\* invoke(prompt, system_prompt, temperature)
Invoke(limit) ==
    InvokeFrom("invoke", limit, {None, OverrideTemperature}, PromptLengths)

\* _invoke_internal, lines 318-336 (and 393-405 when the loop has no pass):
\* the estimate, the rate limiter, the temperature override, then the
\* retry loop is entered.
invoke_acquire ==
    /\ pc = "acquire"
    /\ \E over1 \in 0..MaxOversleep, over2 \in 0..MaxOversleep :
        LET n == estimate_tokens(prompt_len)
            r == Acquire(request_times, token_counts, now, n, over1, over2)
        IN /\ estimated_tokens' = n
           /\ request_times' = r.request_times
           /\ token_counts' = r.token_counts
           /\ now' = r.now
    /\ trace' = trace \o <<"estimate", "acquire">>
    /\ attempt' = 0
    /\ last_exception' = NoError
    /\ original_temp' = IF temp_param # None THEN temperature
                        ELSE original_temp
    /\ IF max_retries > 0
       THEN /\ pc' = "attempt"
            /\ temperature' = IF temp_param # None THEN temp_param
                              ELSE temperature
            /\ UNCHANGED <<state, failure_count, last_failure_time,
                           last_success_time, func_error, raised, consec,
                           since_ok, entry_raised>>
       ELSE /\ pc' = "idle"
            /\ UNCHANGED temperature
            /\ BreakerRaises(RaiseNone)
            /\ entry_raised' = RaiseNone
    /\ UNCHANGED <<failure_threshold, timeout, calls, entry_state, executed,
                   run_state, time_remaining, requests_per_minute,
                   tokens_per_minute, admissions, called_at, max_retries,
                   total_usage, temp_param, issued, prompt_len, entry,
                   streams, attempts, contacts, returned_usage, pipeVars, docVars>>

\* Lines 366-368 and 401-403: the temperature is restored.
RestoredTemperature ==
    IF temp_param # None THEN original_temp ELSE temperature

\* Lines 338-370: model.invoke answers and invoke returns; lines 491-513:
\* invoke_with_json_output then parses the answer.
AttemptSucceeds ==
    /\ \E response_len \in ResponseLengths, response_text \in Responses :
        LET usage == [input_tokens |-> estimate_tokens(prompt_len),
                      output_tokens |-> estimate_tokens(response_len)]
        IN /\ total_usage' = AddUsage(total_usage, usage)
           /\ IF entry = "json" /\ ~ParsesAsJson(StripFence(response_text))
              THEN /\ entry_raised' = JSONDecodeError
                   /\ UNCHANGED returned_usage
              ELSE /\ entry_raised' = NoError
                   /\ returned_usage' = AddUsage(returned_usage, usage)
    /\ temperature' = RestoredTemperature
    /\ BreakerReturns
    /\ pc' = "idle"
    /\ trace' = Append(trace, "contact")
    /\ attempts' = Append(attempts, now)
    /\ UNCHANGED <<now, attempt, last_exception>>

\* Lines 372-379: a validation error is raised at once.
AttemptInvalid(e) ==
    /\ IsValidationError(e)
    /\ BreakerRaises(e)
    /\ entry_raised' = e
    /\ pc' = "idle"
    /\ last_exception' = e
    /\ trace' = Append(trace, "contact")
    /\ attempts' = Append(attempts, now)
    /\ UNCHANGED <<now, attempt, temperature, total_usage, returned_usage>>

\* A bug: the backoff doubles once too often.
MutAttemptRetried_double(e) ==
    /\ ~IsValidationError(e)
    /\ attempt < max_retries - 1
    /\ now' = now + Pow2(attempt + 1)
    /\ attempt' = attempt + 1
    /\ last_exception' = e
    /\ trace' = trace \o <<"contact", "sleep">>
    /\ attempts' = Append(attempts, now)
    /\ UNCHANGED <<pc, state, failure_count, last_failure_time,
                   last_success_time, func_error, raised, consec, since_ok,
                   temperature, total_usage, returned_usage, entry_raised>>

\* Lines 372-388: another error, and attempts are left: back off, retry.
AttemptRetried(e) ==
    /\ ~IsValidationError(e)
    /\ attempt < max_retries - 1
    /\ now' = now + Pow2(attempt)
    /\ attempt' = attempt + 1
    /\ last_exception' = e
    /\ trace' = trace \o <<"contact", "sleep">>
    /\ attempts' = Append(attempts, now)
    /\ UNCHANGED <<pc, state, failure_count, last_failure_time,
                   last_success_time, func_error, raised, consec, since_ok,
                   temperature, total_usage, returned_usage, entry_raised>>

\* A bug: the breaker counts every failed attempt of the call, not the
\* call.
MutAttemptExhausted_per_attempt(e) ==
    /\ ~IsValidationError(e)
    /\ ~(attempt < max_retries - 1)
    /\ temperature' = RestoredTemperature
    /\ LET r == OnRaise(e, state, failure_count + attempt,
                        last_failure_time, now)
       IN /\ state' = r.state
          /\ failure_count' = r.failure_count
          /\ last_failure_time' = r.last_failure_time
    /\ func_error' = e
    /\ raised' = e
    /\ consec' = IF is_quota_error(e) THEN consec + 1 ELSE 0
    /\ since_ok' = IF is_quota_error(e) THEN since_ok + 1 ELSE since_ok
    /\ UNCHANGED last_success_time
    /\ entry_raised' = e
    /\ pc' = "idle"
    /\ last_exception' = e
    /\ trace' = Append(trace, "contact")
    /\ attempts' = Append(attempts, now)
    /\ UNCHANGED <<now, attempt, total_usage, returned_usage>>

\* Lines 372-405: another error on the last attempt: it is raised.
AttemptExhausted(e) ==
    /\ ~IsValidationError(e)
    /\ ~(attempt < max_retries - 1)
    /\ temperature' = RestoredTemperature
    /\ BreakerRaises(e)
    /\ entry_raised' = e
    /\ pc' = "idle"
    /\ last_exception' = e
    /\ trace' = Append(trace, "contact")
    /\ attempts' = Append(attempts, now)
    /\ UNCHANGED <<now, attempt, total_usage, returned_usage>>

\* One pass of the retry loop: model.invoke is called.
invoke_attempt ==
    /\ pc = "attempt"
    /\ issued' = Append(Trailing(issued, now), now)
    /\ contacts' = contacts + 1
    /\ \/ AttemptSucceeds
       \/ \E e \in ModelErrors :
            AttemptInvalid(e) \/ AttemptRetried(e) \/ AttemptExhausted(e)
    /\ UNCHANGED <<failure_threshold, timeout, calls, entry_state, executed,
                   run_state, time_remaining, limiterVars, max_retries,
                   estimated_tokens, temp_param, original_temp, prompt_len,
                   entry, streams, pipeVars, docVars>>

\* invoke_with_json_output(prompt, system_prompt): invoke without a
\* temperature; the answer is parsed when invoke returns.
invoke_with_json_output ==
    InvokeFrom("json", MaxInvokes, {None}, PromptLengths)

\* invoke_with_streaming(prompt, system_prompt, callback), called d seconds
\* after the last operation: the rate limiter, then model.stream; the
\* stream ends or breaks.
invoke_with_streaming ==
    /\ pc = "idle"
    /\ calls + streams < MaxInvokes
    /\ streams' = streams + 1
    /\ entry' = "stream"
    /\ \E d \in ClientDelays, len \in PromptLengths,
          over1 \in 0..MaxOversleep, over2 \in 0..MaxOversleep :
        LET n == estimate_tokens(len)
            r == Acquire(request_times, token_counts, now + d, n, over1, over2)
        IN /\ prompt_len' = len
           /\ estimated_tokens' = n
           /\ request_times' = r.request_times
           /\ token_counts' = r.token_counts
           /\ now' = r.now
           /\ issued' = Append(Trailing(issued, r.now), r.now)
           /\ attempts' = <<r.now>>
           /\ \/ \E response_len \in ResponseLengths :
                   LET usage ==
                         [input_tokens |-> n,
                          output_tokens |-> estimate_tokens(response_len)]
                   IN /\ total_usage' = AddUsage(total_usage, usage)
                      /\ returned_usage' = AddUsage(returned_usage, usage)
                      /\ entry_raised' = NoError
              \/ \E e \in ModelErrors :
                   /\ entry_raised' = e
                   /\ UNCHANGED <<total_usage, returned_usage>>
    /\ contacts' = contacts + 1
    /\ trace' = <<"estimate", "acquire", "contact">>
    /\ UNCHANGED <<breakerVars, callVars, requests_per_minute,
                   tokens_per_minute, admissions, called_at, max_retries, pc,
                   attempt, last_exception, temperature, temp_param,
                   original_temp, pipeVars, docVars>>

\* reset_usage()
reset_usage ==
    /\ pc = "idle"
    /\ total_usage' = ZeroUsage
    /\ returned_usage' = ZeroUsage
    /\ UNCHANGED <<now, breakerVars, callVars, limiterVars, max_retries, pc,
                   estimated_tokens, attempt, last_exception, temperature,
                   temp_param, original_temp, issued, prompt_len, entry,
                   entry_raised, streams, trace, attempts, contacts,
                   pipeVars, docVars>>

\* ------------------------------------------------------ DocumentGenerator
\* In the pipeline a call of the client is modelled by what it comes to for
\* the stage that makes it: it returns a text and its TokenUsage, it raises,
\* or (invoke_with_json_output) it raises after invoke has returned.

\* max_tokens as process_video_transcription passes it (and the default),
\* and the limit _stage_5_write_content sets.
DefaultMaxTokens == 4096
Stage5MaxTokens == 8192

\* The values of max_tokens a client is built with.
MaxTokensValues == {DefaultMaxTokens, Stage5MaxTokens}

\* The TokenUsage of a model call made by a stage.
StageUsages == { [input_tokens |-> 1, output_tokens |-> 1] }

\* How the client's call ends for a stage.
LlmOutcomes(is_json) ==
    IF is_json THEN {"ok", "bad_json", "error"} ELSE {"ok", "error"}

\* The client's fields a stage's model call leaves as they are.
clientFrame == <<max_retries, pc, estimated_tokens, attempt, last_exception,
                 temperature, temp_param, original_temp, issued, prompt_len,
                 entry, entry_raised, streams, trace, attempts, contacts>>

\* StageResult; output is "null" for None and "value" for anything else.
StageResult(id, out, usage, st) ==
    [stage_id |-> id, output |-> out, tokens_used |-> usage, status |-> st]

Succeeded(id, usage) == StageResult(id, "value", usage, "success")

Failed(id) == StageResult(id, "null", ZeroUsage, "failed")

\* Lines 166-169: the token usage of a list of stage results, summed.
RECURSIVE SumUsage(_)
SumUsage(results) ==
    IF results = <<>> THEN ZeroUsage
    ELSE AddUsage(results[1].tokens_used, SumUsage(Tail(results)))

\* A bug: stage 5 is run for every chunk.
MutNextStage_fan_out(id, i, n) ==
    IF id < 5 THEN id + 1
    ELSE IF n > 1 /\ i < n THEN 1 ELSE 6

\* The stage that follows stage id of chunk i of n: _process_single_chunk,
\* lines 201-227, the loop of _process_multiple_chunks, lines 248-265, and
\* generate_document, lines 143-149.
NextStage(id, i, n) ==
    IF id < 4 THEN id + 1
    ELSE IF id = 4 THEN (IF n > 1 /\ i < n THEN 1 ELSE 5)
    ELSE 6

\* The chunk that stage is run for.
NextChunk(id, i, n) ==
    IF NextStage(id, i, n) = 1 THEN i + 1 ELSE i

\* What stage id is given: the chunk, the output of the stage before it,
\* or (lines 262-265) the merged outline, a text whatever the outlines are.
StageInput(id) ==
    IF id = 1 THEN "value"
    ELSE IF id = 5 /\ chunks # 1 THEN "value"
    ELSE executions[Len(executions)].output

\* A stage has produced the StageResult res, its model call made under the
\* output-token limit `limit`: _process_single_chunk appends it to results,
\* _process_multiple_chunks keeps the outline of stage 4 and returns the
\* result of stage 5 alone.
RunStage(id, res, limit) ==
    /\ executions' =
          Append(executions,
                 [stage_id |-> id,
                  chunk |-> IF id = 5 /\ chunks # 1 THEN 0 ELSE chunk_i,
                  input |-> StageInput(id),
                  output |-> res.output,
                  status |-> res.status,
                  tokens_used |-> res.tokens_used,
                  limit |-> limit])
    /\ stage_results' =
          IF chunks = 1 THEN Append(stage_results, res)
          ELSE IF id = 5 THEN <<res>> ELSE stage_results
    /\ chunk_outlines' =
          IF chunks # 1 /\ id = 4 THEN Append(chunk_outlines, res.output)
          ELSE chunk_outlines
    /\ next_stage' = NextStage(id, chunk_i, chunks)
    /\ chunk_i' = NextChunk(id, chunk_i, chunks)

\* A stage that calls the model: limit is model_kwargs["max_tokens"] during
\* the call, after_ok and after_error what it is when the stage returns.
LlmStage(id, is_json, limit, after_ok, after_error) ==
    /\ p_pc = "running"
    /\ next_stage = id
    /\ \E outcome \in LlmOutcomes(is_json), usage \in StageUsages :
        /\ total_usage' = IF outcome = "error" THEN total_usage
                          ELSE AddUsage(total_usage, usage)
        /\ returned_usage' = IF outcome = "ok"
                             THEN AddUsage(returned_usage, usage)
                             ELSE returned_usage
        /\ model_max_tokens' = IF outcome = "ok" THEN after_ok
                               ELSE after_error
        /\ RunStage(id,
                    IF outcome = "ok" THEN Succeeded(id, usage)
                    ELSE Failed(id),
                    limit)
    /\ UNCHANGED <<max_tokens, p_pc, chunks, s3_objects, total_tokens>>
    /\ UNCHANGED <<docVars, now, breakerVars, callVars, limiterVars, clientFrame>>

\* BedrockLLMClient.__init__ with max_tokens one of `values`, and a
\* DocumentGenerator that has not run.
InitPipelineWith(values) ==
    /\ max_tokens \in values
    /\ model_max_tokens = max_tokens
    /\ p_pc = "idle"
    /\ next_stage = 0
    /\ chunks = 0
    /\ chunk_i = 0
    /\ stage_results = <<>>
    /\ chunk_outlines = <<>>
    /\ s3_objects = {}
    /\ total_tokens = ZeroUsage
    /\ executions = <<>>

InitPipeline == InitPipelineWith({DefaultMaxTokens})

\* generate_document, lines 117-141: the transcription is loaded, parsed
\* and cut into chunks, or one of these raises.  chunk_transcription gives
\* no chunk for a long text without segments; _process_multiple_chunks
\* then goes straight to stage 5.
generate_document ==
    /\ p_pc = "idle"
    /\ \/ \E n \in 0..MaxChunks :
            /\ chunks' = n
            /\ p_pc' = "running"
            /\ next_stage' = IF n = 0 THEN 5 ELSE 1
            /\ chunk_i' = IF n = 0 THEN 0 ELSE 1
       \/ /\ p_pc' = "raised"
          /\ UNCHANGED <<chunks, next_stage, chunk_i>>
    /\ UNCHANGED <<max_tokens, model_max_tokens, stage_results,
                   chunk_outlines, s3_objects, total_tokens, executions>>
    /\ UNCHANGED <<docVars, now, breakerVars, callVars, limiterVars, clientVars>>

\* _stage_1_clean_transcription: format_with_timestamps returns or raises.
_stage_1_clean_transcription ==
    /\ p_pc = "running"
    /\ next_stage = 1
    /\ \E ok \in BOOLEAN :
        RunStage(1, IF ok THEN Succeeded(1, ZeroUsage) ELSE Failed(1), None)
    /\ UNCHANGED <<max_tokens, model_max_tokens, p_pc, chunks, s3_objects,
                   total_tokens>>
    /\ UNCHANGED <<docVars, now, breakerVars, callVars, limiterVars, clientVars>>

_stage_2_extract_technical_content ==
    LlmStage(2, TRUE, model_max_tokens, model_max_tokens, model_max_tokens)

_stage_3_map_solutions ==
    LlmStage(3, TRUE, model_max_tokens, model_max_tokens, model_max_tokens)

_stage_4_structure_document ==
    LlmStage(4, FALSE, model_max_tokens, model_max_tokens, model_max_tokens)

\* Lines 609-646: the limit is set to 8192 for the call and set to
\* self.llm.max_tokens when the call has returned.
_stage_5_write_content ==
    LlmStage(5, FALSE, Stage5MaxTokens, max_tokens, Stage5MaxTokens)

\* How _stage_6_generate_outputs ends once the Markdown is encoded.
Stage6Outcomes ==
    {"md_put_raises", "docx_conversion_raises", "docx_put_raises", "ok"}

\* The objects it has put into the bucket by then.
Written(outcome) ==
    IF outcome = "md_put_raises" THEN {}
    ELSE IF outcome = "ok" THEN {"document.md", "document.docx"}
    ELSE {"document.md"}

\* A bug: a missing document is written as an empty one.
MutCanEncode_always(markdown_content) == TRUE

\* Line 669: markdown_content.encode('utf-8') raises AttributeError on None.
CanEncode(markdown_content) == markdown_content # "null"

\* generate_document, lines 143-192, with _stage_6_generate_outputs.
_stage_6_generate_outputs ==
    /\ p_pc = "running"
    /\ next_stage = 6
    /\ LET final_stage == stage_results[Len(stage_results)]
           markdown_content == final_stage.output
       IN IF ~CanEncode(markdown_content)
          THEN /\ p_pc' = "raised"
               /\ UNCHANGED <<s3_objects, stage_results, total_tokens,
                              executions>>
          ELSE \E outcome \in Stage6Outcomes :
                 /\ s3_objects' = s3_objects \cup Written(outcome)
                 /\ IF outcome = "ok"
                    THEN LET res == Succeeded(6, ZeroUsage)
                         IN /\ stage_results' = Append(stage_results, res)
                            /\ total_tokens' =
                                  SumUsage(Append(stage_results, res))
                            /\ executions' =
                                  Append(executions,
                                         [stage_id |-> 6,
                                          chunk |-> 0,
                                          input |-> markdown_content,
                                          output |-> res.output,
                                          status |-> res.status,
                                          tokens_used |-> res.tokens_used,
                                          limit |-> None])
                            /\ p_pc' = "returned"
                    ELSE /\ p_pc' = "raised"
                         /\ UNCHANGED <<stage_results, total_tokens,
                                        executions>>
    /\ UNCHANGED <<max_tokens, model_max_tokens, next_stage, chunks, chunk_i,
                   chunk_outlines>>
    /\ UNCHANGED <<docVars, now, breakerVars, callVars, limiterVars, clientVars>>

\* BedrockCircuitBreaker.__init__
InitBreaker ==
    /\ failure_threshold \in 1..MaxThreshold
    /\ timeout \in 1..MaxTimeout
    /\ failure_count = 0
    /\ last_failure_time = None
    /\ state = "CLOSED"
    /\ last_success_time = None

InitCall ==
    /\ calls = 0
    /\ entry_state = "none"
    /\ executed = FALSE
    /\ run_state = "none"
    /\ func_error = NoError
    /\ raised = NoError
    /\ time_remaining = None
    /\ consec = 0
    /\ since_ok = 0

\* call, lines 114-125: OPEN and the timeout not elapsed.  The clock is read
\* once by _should_attempt_reset and once more for time_remaining.
CallRejected ==
    /\ state = "OPEN"
    /\ ~_should_attempt_reset(last_failure_time, now)
    /\ \E skew \in 0..MaxSkew :
        /\ now + skew <= MaxTime
        /\ now' = now + skew
        /\ time_remaining' = TimeRemaining(last_failure_time, now + skew)
    /\ entry_state' = state
    /\ executed' = FALSE
    /\ run_state' = "none"
    /\ func_error' = NoError
    /\ raised' = CircuitBreakerOpen
    /\ UNCHANGED <<state, failure_count, last_failure_time, last_success_time,
                   consec, since_ok>>

\* call, lines 114-137: admitted, and the function returns after dur seconds.
CallReturns ==
    /\ ~(state = "OPEN" /\ ~_should_attempt_reset(last_failure_time, now))
    /\ \E dur \in 0..MaxDur :
        /\ now + dur <= MaxTime
        /\ now' = now + dur
        /\ LET st == AdmittedState(state)
               r == OnReturn(st, failure_count, last_failure_time, now + dur)
           IN /\ run_state' = st
              /\ state' = r.state
              /\ failure_count' = r.failure_count
              /\ last_failure_time' = r.last_failure_time
              /\ last_success_time' = r.last_success_time
    /\ entry_state' = state
    /\ executed' = TRUE
    /\ func_error' = NoError
    /\ raised' = NoError
    /\ time_remaining' = None
    /\ consec' = 0
    /\ since_ok' = 0

\* call, lines 114-129 and 139-161: admitted, and the function raises e
\* after dur seconds.
CallRaises ==
    /\ ~(state = "OPEN" /\ ~_should_attempt_reset(last_failure_time, now))
    /\ \E dur \in 0..MaxDur, e \in Exceptions :
        /\ now + dur <= MaxTime
        /\ now' = now + dur
        /\ LET st == AdmittedState(state)
               r == OnRaise(e, st, failure_count, last_failure_time, now + dur)
           IN /\ run_state' = st
              /\ state' = r.state
              /\ failure_count' = r.failure_count
              /\ last_failure_time' = r.last_failure_time
        /\ func_error' = e
        /\ raised' = e
        /\ consec' = IF is_quota_error(e) THEN consec + 1 ELSE 0
        /\ since_ok' = IF is_quota_error(e) THEN since_ok + 1 ELSE since_ok
    /\ entry_state' = state
    /\ executed' = TRUE
    /\ time_remaining' = None
    /\ UNCHANGED last_success_time

\* BedrockCircuitBreaker.call
call ==
    /\ calls < MaxCalls
    /\ calls' = calls + 1
    /\ (CallRejected \/ CallReturns \/ CallRaises)
    /\ UNCHANGED <<failure_threshold, timeout, limiterVars, clientVars,
                   pipeVars, docVars>>

\* A bug: force_open opens the breaker and leaves the failure count and the
\* failure time as they were.
Mut_force_open_state_only ==
    /\ pc = "idle"
    /\ state' = "OPEN"
    /\ UNCHANGED <<failure_count, last_failure_time>>
    /\ UNCHANGED <<now, failure_threshold, timeout, last_success_time, callVars,
                   limiterVars, clientVars, pipeVars, docVars>>

\* BedrockCircuitBreaker.force_open, called between two calls.
force_open ==
    /\ pc = "idle"
    /\ state' = "OPEN"
    /\ failure_count' = failure_threshold
    /\ last_failure_time' = now
    /\ UNCHANGED <<now, failure_threshold, timeout, last_success_time, callVars,
                   limiterVars, clientVars, pipeVars, docVars>>

\* BedrockCircuitBreaker.force_reset, called between two calls.
force_reset ==
    /\ pc = "idle"
    /\ state' = _reset.state
    /\ failure_count' = _reset.failure_count
    /\ last_failure_time' = _reset.last_failure_time
    /\ consec' = 0
    /\ since_ok' = 0
    /\ UNCHANGED <<now, failure_threshold, timeout, last_success_time, calls,
                   entry_state, executed, run_state, func_error, raised,
                   time_remaining, limiterVars, clientVars, pipeVars, docVars>>

\* One second passes between two operations.
Tick ==
    /\ now < MaxTime
    /\ now' = now + 1
    /\ UNCHANGED <<breakerVars, callVars, limiterVars, clientVars, pipeVars, docVars>>

\* ------------------------------- DocumentGenerator with the client's breaker
\* The stages of generate_document that call the model, with the call taken
\* through BedrockLLMClient.invoke: the breaker's verdict, then the rate
\* limiter, then the retry loop as one step.

\* The attempts an admitted call can make and how it then ends: success
\* at attempt j, a validation error at attempt j, or another error at the
\* last attempt.
CallEndings ==
    { [attempts |-> j, error |-> e] :
        j \in 1..DefaultMaxRetries,
        e \in {NoError} \cup { x \in ModelErrors : IsValidationError(x) } }
    \cup { [attempts |-> DefaultMaxRetries, error |-> e] :
             e \in { x \in ModelErrors : ~IsValidationError(x) } }

\* The backoff slept before attempt j: 1 + 2 + ... + 2 ** (j - 2) seconds.
BackoffBefore(j) == Pow2(j - 1) - 1

\* A bug: the rate limiter is asked before the breaker, so that a rejected
\* call leaves an entry in the window.
MutStageCallRejected_acquire(id, limit, after_error, t) ==
    /\ InvokeRejected(t)
    /\ calls' = calls + 1
    /\ entry_state' = state
    /\ entry' = "invoke"
    /\ model_max_tokens' = after_error
    /\ RunStage(id, Failed(id), limit)
    /\ open_throughout' =
         (open_throughout /\ now' - last_failure_time < timeout)
    /\ request_times' = Append(request_times, t)
    /\ UNCHANGED <<failure_threshold, timeout, requests_per_minute,
                   tokens_per_minute, token_counts, admissions, called_at,
                   max_retries, estimated_tokens, attempt, last_exception,
                   temperature, total_usage, original_temp, issued,
                   prompt_len, streams, attempts, contacts, returned_usage>>

\* The breaker rejects the stage's call at time t: invoke raises
\* CircuitBreakerOpen, the stage catches it and returns a failed result.
StageCallRejected(id, limit, after_error, t) ==
    /\ InvokeRejected(t)
    /\ calls' = calls + 1
    /\ entry_state' = state
    /\ entry' = "invoke"
    /\ model_max_tokens' = after_error
    /\ RunStage(id, Failed(id), limit)
    /\ open_throughout' =
         (open_throughout /\ now' - last_failure_time < timeout)
    /\ UNCHANGED <<failure_threshold, timeout, limiterVars, max_retries,
                   estimated_tokens, attempt, last_exception, temperature,
                   total_usage, original_temp, issued, prompt_len, streams,
                   attempts, contacts, returned_usage>>

\* The breaker admits the stage's call at time t: the rate limiter, the
\* attempts, the breaker's accounting and the stage's result.  The window
\* holds fewer than DefaultRpm requests, so that acquire does not sleep.
StageCallAdmitted(id, is_json, limit, after_ok, after_error, t) ==
    /\ ~(state = "OPEN" /\ ~_should_attempt_reset(last_failure_time, t))
    /\ contacts < MaxAdmitted
    /\ \E ending \in CallEndings, usage \in StageUsages,
          parses \in IF is_json THEN BOOLEAN ELSE {TRUE},
          len \in BurstPromptLengths :
         LET n == estimate_tokens(len)
             a == Acquire(request_times, token_counts, t, n, 0, 0)
             end == a.now + BackoffBefore(ending.attempts)
             st == AdmittedState(state)
             ok == ending.error = NoError
             r == IF ok
                  THEN OnReturn(st, failure_count, last_failure_time, end)
                  ELSE OnRaise(ending.error, st, failure_count,
                               last_failure_time, end)
         IN /\ prompt_len' = len
            /\ estimated_tokens' = n
            /\ request_times' = a.request_times
            /\ token_counts' = a.token_counts
            /\ now' = end
            /\ state' = r.state
            /\ failure_count' = r.failure_count
            /\ last_failure_time' = r.last_failure_time
            /\ last_success_time' = IF ok THEN end ELSE last_success_time
            /\ func_error' = ending.error
            /\ raised' = ending.error
            /\ consec' = IF ok THEN 0
                         ELSE IF is_quota_error(ending.error) THEN consec + 1
                         ELSE 0
            /\ since_ok' = IF ok THEN 0
                           ELSE IF is_quota_error(ending.error)
                           THEN since_ok + 1 ELSE since_ok
            /\ run_state' = st
            /\ entry_raised' = IF ok /\ ~parses THEN JSONDecodeError
                               ELSE ending.error
            /\ contacts' = contacts + ending.attempts
            /\ attempts' = [k \in 1..ending.attempts |->
                               a.now + BackoffBefore(k)]
            /\ attempt' = ending.attempts - 1
            /\ last_exception' = ending.error
            /\ total_usage' = IF ok THEN AddUsage(total_usage, usage)
                              ELSE total_usage
            /\ returned_usage' = IF ok /\ parses
                                 THEN AddUsage(returned_usage, usage)
                                 ELSE returned_usage
            /\ model_max_tokens' = IF ok THEN after_ok ELSE after_error
            /\ RunStage(id,
                        IF ok /\ parses THEN Succeeded(id, usage)
                        ELSE Failed(id),
                        limit)
    /\ calls' = calls + 1
    /\ entry_state' = state
    /\ executed' = TRUE
    /\ time_remaining' = None
    /\ entry' = "invoke"
    /\ trace' = <<"admit", "estimate", "acquire", "contact">>
    /\ open_throughout' = FALSE
    /\ UNCHANGED <<failure_threshold, timeout, requests_per_minute,
                   tokens_per_minute, admissions, called_at, max_retries,
                   pc, temperature, temp_param, original_temp, issued,
                   streams>>

\* Stage 2, 3, 4 or 5 of a run, d seconds after the step before it: the
\* prompt is built, the client is called and the result is returned.
llm_stage_guarded ==
    /\ p_pc = "running"
    /\ next_stage \in 2..5
    /\ LET id == next_stage
           limit == IF id = 5 THEN Stage5MaxTokens ELSE model_max_tokens
           after_ok == IF id = 5 THEN max_tokens ELSE model_max_tokens
       IN \E d \in ClientDelays :
            \/ StageCallRejected(id, limit, limit, now + d)
            \/ StageCallAdmitted(id, id \in {2, 3}, limit, after_ok, limit,
                                 now + d)
    /\ UNCHANGED <<max_tokens, p_pc, chunks, s3_objects, total_tokens>>
    /\ UNCHANGED <<parseVars, chunkVars, mainVars, finVars, handlerVars,
                   starterVars>>

\* An operator opens the breaker before the run starts.
force_open_before_run ==
    /\ p_pc = "idle"
    /\ state = "CLOSED"
    /\ force_open

\* ---------------------------------------------------- TranscriptionParser
\* Python's None as a speaker label.
NoSpeaker == "None"

\* The speaker labels of the model.
Speakers == {"spk_0", "spk_1"}

\* The items of results['items'] in the model: a pronunciation item with
\* the speaker speaker_map.get(start_time, None) gives it, or a punctuation
\* item.  The k-th item starts at time 2k and ends at time 2k + 1.
ItemChoices ==
    { [type |-> "pronunciation", speaker |-> s] :
          s \in Speakers \cup {NoSpeaker} }
    \cup { [type |-> "punctuation", speaker |-> NoSpeaker] }

StartTime(k) == 2 * k

EndTime(k) == 2 * k + 1

\* The sequences over S of length at most n.
SeqsUpTo(S, n) == UNION { [1..k -> S] : k \in 0..n }

\* A TranscriptionSegment.  Its text is the list of its words, each word
\* the pronunciation item followed by the punctuation items appended to it;
\* the confidence is left out.
TranscriptionSegment(text, start, end, speaker) ==
    [text |-> text, start_time |-> start, end_time |-> end,
     speaker |-> speaker]

\* The test that closes the running segment.
SpeakerChanged(speaker) ==
    current_speaker # NoSpeaker /\ speaker # current_speaker

InitParserWith(inputs) ==
    /\ items \in inputs
    /\ item_i = 1
    /\ current_segment = <<>>
    /\ current_start = None
    /\ current_speaker = NoSpeaker
    /\ end_time = None
    /\ parsed = <<>>
    /\ x_pc = "loop"

InitParser == InitParserWith({<<>>})

\* One turn of the loop over results['items'].
_extract_segments ==
    /\ x_pc = "loop"
    /\ item_i <= Len(items)
    /\ LET item == items[item_i]
           changed == SpeakerChanged(item.speaker)
           kept == IF changed THEN <<>> ELSE current_segment
           start == IF changed THEN None ELSE current_start
       IN IF item.type = "pronunciation"
          THEN /\ end_time' = EndTime(item_i)
               /\ parsed' =
                    IF changed /\ current_segment # <<>>
                    THEN Append(parsed,
                                TranscriptionSegment(current_segment,
                                    current_start, EndTime(item_i),
                                    current_speaker))
                    ELSE parsed
               /\ current_start' =
                    IF start = None THEN StartTime(item_i) ELSE start
               /\ current_segment' = Append(kept, <<item_i>>)
               /\ current_speaker' = item.speaker
          ELSE /\ current_segment' =
                    IF current_segment # <<>>
                    THEN [current_segment EXCEPT
                            ![Len(current_segment)] = Append(@, item_i)]
                    ELSE current_segment
               /\ UNCHANGED <<end_time, parsed, current_start,
                              current_speaker>>
    /\ item_i' = item_i + 1
    /\ UNCHANGED <<items, x_pc>>
    /\ UNCHANGED <<lamVars, llmVars, chunkVars, mainVars, finVars>>

\* After the loop: the final segment, and the return.
_extract_segments_return ==
    /\ x_pc = "loop"
    /\ item_i > Len(items)
    /\ parsed' =
         IF current_segment # <<>>
         THEN Append(parsed,
                     TranscriptionSegment(current_segment, current_start,
                                          end_time, current_speaker))
         ELSE parsed
    /\ x_pc' = "returned"
    /\ UNCHANGED <<items, item_i, current_segment, current_start,
                   current_speaker, end_time>>
    /\ UNCHANGED <<lamVars, llmVars, chunkVars, mainVars, finVars>>

\* The length of a segment's text in characters, in the model.
SegmentLengths == {3, 4, 16}

\* The values of max_tokens_per_chunk in the model.
MaxTokensPerChunkValues == {8, 10}

\* The default of max_tokens_per_chunk.
DefaultMaxTokensPerChunk == 100000

\* A pause between two segments that is longer than five seconds; every
\* segment lasts one second and the next one starts one second later.
LongPause == 6

\* parsed_data['segments'] for the given text lengths and speakers, with a
\* long pause before segment pause_before (0: no long pause).  The text of
\* a segment is modelled by its length.
MakeSegments(lens, spk, pause_before) ==
    [k \in 1..Len(lens) |->
        LET start == 2 * (k - 1) +
                     (IF pause_before # 0 /\ k >= pause_before
                      THEN LongPause ELSE 0)
        IN [text |-> lens[k], speaker |-> spk[k],
            start_time |-> start, end_time |-> start + 1]]

\* The parsed transcripts of at most n segments.
Transcripts(n) ==
    UNION { { MakeSegments(lens, spk, p) :
                lens \in [1..k -> SegmentLengths],
                spk \in [1..k -> Speakers],
                p \in {0} \cup 2..k } : k \in 0..n }

RECURSIVE SumLen(_)
SumLen(lens) == IF lens = <<>> THEN 0 ELSE Head(lens) + SumLen(Tail(lens))

\* len(' '.join(texts)) for texts of the given lengths.
JoinedLen(lens) ==
    IF lens = <<>> THEN 0 ELSE SumLen(lens) + Len(lens) - 1

\* The text lengths of the segments with the indices segs.
TextsOf(segs) == [k \in 1..Len(segs) |-> segments[segs[k]].text]

count_tokens(text_len) == text_len \div 4

\* The locals total_tokens, num_chunks and target_tokens_per_chunk, and
\* the field overlap_tokens.
TotalTokens == count_tokens(full_text)

NumChunks ==
    (TotalTokens + max_tokens_per_chunk - 1) \div max_tokens_per_chunk

TargetTokensPerChunk == TotalTokens \div NumChunks

overlap_tokens == max_tokens_per_chunk \div 10

\* A bug: a transcript of exactly max_tokens_per_chunk tokens is split.
MutFitsSingleChunk_strict == TotalTokens < max_tokens_per_chunk

FitsSingleChunk == TotalTokens <= max_tokens_per_chunk

\* A TranscriptionChunk; its segments are given by their indices in
\* parsed_data['segments'].  The fields speakers and metadata are left out.
TranscriptionChunk(id, total, text_len, tokens, segs) ==
    [chunk_id |-> id, total_chunks |-> total, text |-> text_len,
     tokens |-> tokens, segments |-> segs,
     timestamp_range |->
        <<IF segs = <<>> THEN 0 ELSE segments[segs[1]].start_time,
          IF segs = <<>> THEN 0 ELSE segments[segs[Len(segs)]].end_time>>]

_create_chunk(id, total, segs) ==
    TranscriptionChunk(id, total, JoinedLen(TextsOf(segs)),
                       count_tokens(JoinedLen(TextsOf(segs))), segs)

SegmentTokens(i) == count_tokens(segments[i].text)

RECURSIVE SumSegmentTokens(_)
SumSegmentTokens(segs) ==
    IF segs = <<>> THEN 0
    ELSE SegmentTokens(Head(segs)) + SumSegmentTokens(Tail(segs))

\* _get_overlap_segments walks the segments backwards from the k-th and
\* stops at the first that would take the sum over the target.
RECURSIVE OverlapCount(_, _, _, _)
OverlapCount(segs, k, tokens, target) ==
    IF k = 0 THEN 0
    ELSE IF tokens + SegmentTokens(segs[k]) > target THEN 0
    ELSE 1 + OverlapCount(segs, k - 1, tokens + SegmentTokens(segs[k]),
                          target)

\* A bug: the overlap is the last segment alone, when it fits.
MutOverlap_last_only(segs, target) ==
    IF segs # <<>> /\ SegmentTokens(segs[Len(segs)]) <= target
    THEN <<segs[Len(segs)]>>
    ELSE <<>>

_get_overlap_segments(segs, target) ==
    SubSeq(segs, Len(segs) - OverlapCount(segs, Len(segs), 0, target) + 1,
           Len(segs))

\* Condition 1: the segment would take the chunk over the maximum.
ReachedSize(i) ==
    current_chunk_tokens + SegmentTokens(i) > max_tokens_per_chunk

\* A bug: a speaker change never closes a chunk.
MutGoodBreakpoint_never(i) == FALSE

\* Condition 2: current_chunk_tokens > target_tokens_per_chunk * 0.8 at a
\* speaker change.
GoodBreakpoint(i) ==
    /\ 5 * current_chunk_tokens > 4 * TargetTokensPerChunk
    /\ i > 1
    /\ segments[i].speaker # segments[i - 1].speaker

\* Condition 3: a pause of more than 5.0 seconds with the chunk over half
\* of the target.
PauseBreakpoint(i) ==
    /\ i > 1
    /\ segments[i].start_time - segments[i - 1].end_time > 5
    /\ 2 * current_chunk_tokens > TargetTokensPerChunk

\* A bug: the segment replaces the last one of the chunk.
MutExtend_replace(segs, i) ==
    IF segs = <<>> THEN <<i>> ELSE [segs EXCEPT ![Len(segs)] = i]

\* current_chunk_segments.append(segment)
Extend(segs, i) == Append(segs, i)

InitChunkerWith(transcripts, maxima) ==
    /\ segments \in transcripts
    /\ full_text = JoinedLen([k \in 1..Len(segments) |-> segments[k].text])
    /\ max_tokens_per_chunk \in maxima
    /\ seg_i = 1
    /\ current_chunk_segments = <<>>
    /\ current_chunk_tokens = 0
    /\ chunk_id = 0
    /\ out_chunks = <<>>
    /\ c_pc = "idle"
    /\ overlap_len = 0
    /\ overlaps = <<>>
    /\ breaks = <<>>

InitChunker == InitChunkerWith({<<>>}, {DefaultMaxTokensPerChunk})

\* chunk_transcription up to the return of the single chunk or the call of
\* _adaptive_chunking.
chunk_transcription ==
    /\ c_pc = "idle"
    /\ IF FitsSingleChunk
       THEN /\ out_chunks' =
                 <<TranscriptionChunk(0, 1, full_text, TotalTokens,
                                      [k \in 1..Len(segments) |-> k])>>
            /\ overlaps' = <<0>>
            /\ c_pc' = "returned"
       ELSE /\ c_pc' = "loop"
            /\ UNCHANGED <<out_chunks, overlaps>>
    /\ UNCHANGED <<segments, full_text, max_tokens_per_chunk, seg_i,
                   current_chunk_segments, current_chunk_tokens, chunk_id,
                   overlap_len, breaks>>
    /\ UNCHANGED <<lamVars, llmVars, parseVars, mainVars, finVars>>

\* One turn of the loop of _adaptive_chunking, for segment seg_i.
_adaptive_chunking ==
    /\ c_pc = "loop"
    /\ seg_i <= Len(segments)
    /\ LET should_break ==
               ReachedSize(seg_i) \/ GoodBreakpoint(seg_i)
                   \/ PauseBreakpoint(seg_i)
           split == should_break /\ current_chunk_segments # <<>>
           overlap_segments ==
               _get_overlap_segments(current_chunk_segments, overlap_tokens)
       IN /\ out_chunks' =
               IF split
               THEN Append(out_chunks,
                           _create_chunk(chunk_id, NumChunks,
                                         current_chunk_segments))
               ELSE out_chunks
          /\ overlaps' =
               IF split THEN Append(overlaps, overlap_len) ELSE overlaps
          /\ overlap_len' =
               IF split THEN Len(overlap_segments) ELSE overlap_len
          /\ chunk_id' = IF split THEN chunk_id + 1 ELSE chunk_id
          /\ current_chunk_segments' =
               Extend(IF split THEN overlap_segments
                      ELSE current_chunk_segments, seg_i)
          /\ current_chunk_tokens' =
               (IF split THEN SumSegmentTokens(overlap_segments)
                ELSE current_chunk_tokens) + SegmentTokens(seg_i)
          /\ breaks' =
               Append(breaks, [size |-> ReachedSize(seg_i),
                               speaker |-> GoodBreakpoint(seg_i),
                               pause |-> PauseBreakpoint(seg_i),
                               split |-> split])
    /\ seg_i' = seg_i + 1
    /\ UNCHANGED <<segments, full_text, max_tokens_per_chunk, c_pc>>
    /\ UNCHANGED <<lamVars, llmVars, parseVars, mainVars, finVars>>

\* After the loop: the final chunk, and the return.
_adaptive_chunking_return ==
    /\ c_pc = "loop"
    /\ seg_i > Len(segments)
    /\ IF current_chunk_segments # <<>>
       THEN /\ out_chunks' =
                 Append(out_chunks,
                        _create_chunk(chunk_id, NumChunks,
                                      current_chunk_segments))
            /\ overlaps' = Append(overlaps, overlap_len)
       ELSE UNCHANGED <<out_chunks, overlaps>>
    /\ c_pc' = "returned"
    /\ UNCHANGED <<segments, full_text, max_tokens_per_chunk, seg_i,
                   current_chunk_segments, current_chunk_tokens, chunk_id,
                   overlap_len, breaks>>
    /\ UNCHANGED <<lamVars, llmVars, parseVars, mainVars, finVars>>

\* ------------------------------------------------------------------ main
\* load_config: required_vars.
RequiredVars ==
    { "EXECUTION_ID", "VIDEO_S3_URI", "TRANSCRIPTION_S3_URI",
      "TRACKING_TABLE", "OUTPUT_BUCKET" }

\* A bug: load_config never finds a required variable missing.
MutMissingRequired_none == {}

\* The required variables that are unset or empty.
MissingRequired == RequiredVars \ environ

\* The parameters of DocumentGenerator.__init__ and the keyword arguments
\* process_video_transcription calls it with.
GeneratorParams == {"llm_client", "parser", "s3_client"}

GeneratorArgs == {"llm_client", "parser", "s3_client", "max_output_tokens"}

\* The call of a constructor returns only if it knows every keyword it is
\* given; otherwise it raises TypeError.
Constructs(args, params) == args \subseteq params

\* What a call of update_dynamodb_status meets in table.update_item: it
\* goes through, or raises ClientError, or raises another exception.
UpdateOutcomes == {"ok", "ClientError", "error"}

\* update_dynamodb_status catches ClientError alone.
UpdateRaises(o) == o = "error"

NoResult == [statusCode |-> 0, error |-> ""]

Respond(code, error) ==
    /\ result' = [statusCode |-> code, error |-> error]
    /\ m_pc' = "returned"

\* except ConfigurationError
HandleConfigurationError ==
    /\ Respond(400, "ConfigurationError")
    /\ UNCHANGED tracking

\* except Exception: the update with status FAILED is tried if config is
\* bound, and whatever it raises is caught.  `before` is the tracking
\* history up to the exception.
HandleException(has_config, before) ==
    /\ Respond(500, "InternalError")
    /\ IF has_config
       THEN \E o \in UpdateOutcomes :
                tracking' =
                    Append(before, [status |-> "FAILED", outcome |-> o])
       ELSE tracking' = before

InitMain ==
    /\ environ = RequiredVars
    /\ optional_ok = TRUE
    /\ m_pc = "start"
    /\ config_loaded = FALSE
    /\ tracking = <<>>
    /\ generated = FALSE
    /\ result = NoResult
    /\ exit_code = None

InitMainSpec ==
    /\ environ \in SUBSET RequiredVars
    /\ optional_ok \in BOOLEAN
    /\ m_pc = "start"
    /\ config_loaded = FALSE
    /\ tracking = <<>>
    /\ generated = FALSE
    /\ result = NoResult
    /\ exit_code = None

\* Step 1 of process_video_transcription: load_config, which raises
\* ConfigurationError for a missing required variable and lets the
\* ValueError of int() through for an optional integer that does not parse.
step_1_load_config ==
    /\ m_pc = "start"
    /\ IF MissingRequired # {}
       THEN /\ HandleConfigurationError
            /\ UNCHANGED config_loaded
       ELSE IF ~optional_ok
       THEN /\ HandleException(FALSE, tracking)
            /\ UNCHANGED config_loaded
       ELSE /\ config_loaded' = TRUE
            /\ m_pc' = "configured"
            /\ UNCHANGED <<result, tracking>>
    /\ UNCHANGED <<environ, optional_ok, generated, exit_code>>
    /\ UNCHANGED <<lamVars, llmVars, parseVars, chunkVars, finVars>>

\* Steps 2 and 3: the AWS clients are created, then the status PROCESSING
\* is written.
step_3_update_processing ==
    /\ m_pc = "configured"
    /\ \/ HandleException(config_loaded, tracking)
       \/ \E o \in UpdateOutcomes :
            LET after ==
                  Append(tracking, [status |-> "PROCESSING", outcome |-> o])
            IN IF UpdateRaises(o)
               THEN HandleException(config_loaded, after)
               ELSE /\ tracking' = after
                    /\ m_pc' = "processing"
                    /\ UNCHANGED result
    /\ UNCHANGED <<environ, optional_ok, config_loaded, generated,
                   exit_code>>
    /\ UNCHANGED <<lamVars, llmVars, parseVars, chunkVars, finVars>>

\* Steps 4 to 7: the components are built, generate_document runs, the
\* status COMPLETED is written and the response is returned.
step_5_generate_document ==
    /\ m_pc = "processing"
    /\ IF ~Constructs(GeneratorArgs, GeneratorParams)
       THEN /\ HandleException(config_loaded, tracking)
            /\ UNCHANGED generated
       ELSE \/ /\ HandleException(config_loaded, tracking)
               /\ UNCHANGED generated
            \/ /\ generated' = TRUE
               /\ \E o \in UpdateOutcomes :
                    LET after ==
                          Append(tracking,
                                 [status |-> "COMPLETED", outcome |-> o])
                    IN IF UpdateRaises(o)
                       THEN HandleException(config_loaded, after)
                       ELSE /\ tracking' = after
                            /\ Respond(200, "")
    /\ UNCHANGED <<environ, optional_ok, config_loaded, exit_code>>
    /\ UNCHANGED <<lamVars, llmVars, parseVars, chunkVars, finVars>>

\* main: the exit code for the result.
main ==
    /\ m_pc = "returned"
    /\ exit_code' =
         IF result.statusCode = 200 THEN 0
         ELSE IF result.statusCode = 400 THEN 1
         ELSE 2
    /\ m_pc' = "exited"
    /\ UNCHANGED <<environ, optional_ok, config_loaded, tracking, generated,
                   result>>
    /\ UNCHANGED <<lamVars, llmVars, parseVars, chunkVars, finVars>>

\* ------------------------------------------------------------- finalizer
\* The default of max_attempts.
DefaultMaxAttempts == 3

\* RETRY_DELAY_BASE, in tenths of a second.
RetryDelayBase == 10

\* A bug: a ValidationException is retried.
MutNonRetryable_no_validation ==
    {"AccessDeniedException", "ResourceNotFoundException"}

\* The error codes that are raised at once.
NonRetryable ==
    {"ValidationException", "AccessDeniedException",
     "ResourceNotFoundException"}

\* What table.update_item does in the model: it returns ("ok"), raises a
\* ClientError with one of these codes, or raises an exception that is
\* not a ClientError.
ClientErrorCodes ==
    {"ValidationException", "AccessDeniedException",
     "ResourceNotFoundException", "ProvisionedThroughputExceededException",
     "ServiceUnavailable"}

NotClientError == "EndpointConnectionError"

UpdateItemResults == {"ok", NotClientError} \cup ClientErrorCodes

\* base_delay and the extremes of random.uniform(0, base_delay * 0.3).
BaseDelay(n) == RetryDelayBase * Pow2(n - 1)

Delays(n) == { BaseDelay(n), BaseDelay(n) + (3 * BaseDelay(n)) \div 10 }

InitFinalizerWith(limits, tables) ==
    /\ tracking_table \in tables
    /\ max_attempts \in limits
    /\ f_attempt = 0
    /\ f_pc = "idle"
    /\ update_calls = <<>>
    /\ sleeps = <<>>
    /\ f_outcome = "none"

InitFinalizer == InitFinalizerWith({DefaultMaxAttempts}, {TRUE})

\* update_tracking_with_retry up to the first turn of its loop.
update_tracking_with_retry ==
    /\ f_pc = "idle"
    /\ IF ~tracking_table \/ max_attempts < 1
       THEN /\ f_outcome' = "False"
            /\ f_pc' = "done"
            /\ UNCHANGED f_attempt
       ELSE /\ f_attempt' = 1
            /\ f_pc' = "try"
            /\ UNCHANGED f_outcome
    /\ UNCHANGED <<tracking_table, max_attempts, update_calls, sleeps>>
    /\ UNCHANGED <<lamVars, llmVars, parseVars, chunkVars, mainVars>>

\* One turn of the loop: table.update_item and what follows it.
update_item ==
    /\ f_pc = "try"
    /\ f_attempt <= max_attempts
    /\ \E r \in UpdateItemResults :
         /\ update_calls' = Append(update_calls, r)
         /\ IF r = "ok"
            THEN /\ f_outcome' = "True"
                 /\ f_pc' = "done"
                 /\ UNCHANGED <<f_attempt, sleeps>>
            ELSE IF r = NotClientError \/ r \in NonRetryable
                    \/ f_attempt = max_attempts
            THEN /\ f_outcome' = r
                 /\ f_pc' = "done"
                 /\ UNCHANGED <<f_attempt, sleeps>>
            ELSE /\ \E delay \in Delays(f_attempt) :
                      sleeps' = Append(sleeps, delay)
                 /\ f_attempt' = f_attempt + 1
                 /\ UNCHANGED <<f_outcome, f_pc>>
    /\ UNCHANGED <<tracking_table, max_attempts>>
    /\ UNCHANGED <<lamVars, llmVars, parseVars, chunkVars, mainVars>>

\* ------------------------------------------------ finalizer lambda_handler
\* The events of the model.  execution_id is a string, empty when the key
\* is missing; status is the event's status as sent; transcription and
\* llm_processing are the statuses inside processing_results; `nulls` are
\* the keys the event carries with the JSON null as value, in place of the
\* value listed for them.
FinalizerEvents ==
    [execution_id : {"", "exec-1"},
     status : {"COMPLETED", "partial_success", "UNKNOWN"},
     transcription : {"COMPLETED", "FAILED"},
     llm_processing : {"COMPLETED", "FAILED"},
     nulls : {{}, {"status"}, {"processing_results"}, {"timestamps"}}]

VALID_STATUSES == {"COMPLETED", "FAILED", "PARTIAL_SUCCESS"}

\* str.upper on the status values of the model.
Upper(text) ==
    IF text = "partial_success" THEN "PARTIAL_SUCCESS" ELSE text

\* parse_input_event returns None: execution_id is missing or empty.
ParsesToNone(event) == event.execution_id = ""

\* determine_final_status calls .get on processing_results and .upper on
\* the status: an AttributeError when either is None.
DetermineRaises(event) ==
    "processing_results" \in event.nulls \/ "status" \in event.nulls

determine_final_status(event) ==
    IF Upper(event.status) \in VALID_STATUSES THEN Upper(event.status)
    ELSE IF event.transcription = "FAILED" THEN "FAILED"
    ELSE IF event.transcription = "COMPLETED"
            /\ event.llm_processing = "COMPLETED" THEN "COMPLETED"
    ELSE IF event.transcription = "COMPLETED"
            /\ event.llm_processing \in {"PARTIAL", "FAILED"}
         THEN "PARTIAL_SUCCESS"
    ELSE "FAILED"

\* build_execution_summary calls .get on timestamps.
SummaryRaises(event) == "timestamps" \in event.nulls

\* How a step of the handler ends: it returns True or False, or raises.
StepOutcomes == {"True", "False", "raise"}

NoResults ==
    [tracking_updated |-> FALSE, notification_sent |-> FALSE,
     metrics_recorded |-> FALSE]

NoReturns ==
    [tracking_updated |-> "none", notification_sent |-> "none",
     metrics_recorded |-> "none"]

\* A bug: a step that raises ends the handler.
MutAfterStep_abort(outcome, next) ==
    IF outcome = "raise" THEN "failed" ELSE next

\* Lines 76-110: where the handler goes after a step that ended with
\* `outcome`: every except clause falls through to the next step.
AfterStep(outcome, next) == next

InitHandlerWith(events) ==
    /\ l_event \in events
    /\ l_pc = "idle"
    /\ final_status = "none"
    /\ l_results = NoResults
    /\ l_steps = <<>>
    /\ l_returns = NoReturns
    /\ l_status = None

InitHandler == InitHandlerWith({CHOOSE ev \in FinalizerEvents : TRUE})


\* lambda_handler, lines 50-83: the event is parsed, the final status and
\* the summary are computed and update_tracking_with_retry is called.
lambda_handler ==
    /\ l_pc = "idle"
    /\ IF ParsesToNone(l_event)
       THEN /\ l_status' = 400
            /\ l_pc' = "returned"
            /\ UNCHANGED <<final_status, l_steps>>
       ELSE IF DetermineRaises(l_event) \/ SummaryRaises(l_event)
       THEN /\ l_status' = 500
            /\ l_pc' = "returned"
            /\ final_status' =
                 IF DetermineRaises(l_event) THEN final_status
                 ELSE determine_final_status(l_event)
            /\ UNCHANGED l_steps
       ELSE /\ final_status' = determine_final_status(l_event)
            /\ l_steps' = <<"update_tracking_with_retry">>
            /\ l_pc' = "tracking"
            /\ UNCHANGED l_status
    /\ UNCHANGED <<l_event, l_results, l_returns>>
    /\ UNCHANGED <<llmVars, parseVars, chunkVars, mainVars, finVars,
                   starterVars, open_throughout>>

\* update_tracking_with_retry runs, called by the handler.
tracking_step ==
    /\ l_pc = "tracking"
    /\ update_tracking_with_retry \/ update_item

\* Lines 76-97: update_tracking_with_retry has returned or raised, and
\* publish_sns_notification is called and ends.
publish_sns_notification ==
    /\ l_pc = "tracking"
    /\ f_pc = "done"
    /\ \E outcome \in StepOutcomes :
         LET tracked == IF f_outcome \in {"True", "False"} THEN f_outcome
                        ELSE "raise"
             after == AfterStep(outcome, AfterStep(tracked, "metrics"))
         IN /\ l_returns' = [l_returns EXCEPT
                               !.tracking_updated = tracked,
                               !.notification_sent = outcome]
            /\ l_results' = [l_results EXCEPT
                               !.tracking_updated = (tracked = "True"),
                               !.notification_sent = (outcome = "True")]
            /\ l_steps' = IF AfterStep(tracked, "metrics") = "failed"
                          THEN l_steps
                          ELSE Append(l_steps, "publish_sns_notification")
            /\ l_pc' = IF after = "failed" THEN "returned" ELSE after
            /\ l_status' = IF after = "failed" THEN 500 ELSE l_status
    /\ UNCHANGED <<l_event, final_status>>
    /\ UNCHANGED <<llmVars, parseVars, chunkVars, mainVars, finVars,
                   starterVars, open_throughout>>

\* Lines 99-131: record_cloudwatch_metrics is called and ends, and the
\* handler returns its response.
record_cloudwatch_metrics ==
    /\ l_pc = "metrics"
    /\ \E outcome \in StepOutcomes :
         /\ l_returns' = [l_returns EXCEPT !.metrics_recorded = outcome]
         /\ l_results' = [l_results EXCEPT
                            !.metrics_recorded = (outcome = "True")]
         /\ l_status' = IF AfterStep(outcome, "returned") = "failed"
                        THEN 500 ELSE 200
    /\ l_steps' = Append(l_steps, "record_cloudwatch_metrics")
    /\ l_pc' = "returned"
    /\ UNCHANGED <<l_event, final_status>>
    /\ UNCHANGED <<llmVars, parseVars, chunkVars, mainVars, finVars,
                   starterVars, open_throughout>>

\* ----------------------------------------- transcribe starter lambda_handler
\* The events of the model, by the keys they carry next to execution_id:
\* s3_uri; bucket and video_key; metadata with an s3_uri; or none of these.
\* The URI (or the bucket and the key) is given by its scheme, its bucket
\* and its key; is_null says that the s3_uri is the JSON null.
StarterEvents ==
    [shape : {"s3_uri", "bucket_key", "metadata", "other"},
     scheme : {"s3", "https"},
     bucket : {"input-bucket", "Input_Bucket"},
     key : {"videos/meeting.mp4", "VIDEO.M4A", "document.pdf", ""},
     is_null : BOOLEAN]

\* parse_input_event returns None.
UnparsedEvent(event) == event.shape = "other"

\* The s3_uri of the input data parse_input_event returns.
S3UriOf(event) ==
    [scheme |-> IF event.shape = "bucket_key" THEN "s3" ELSE event.scheme,
     bucket |-> event.bucket,
     key |-> event.key,
     is_null |-> event.is_null /\ event.shape # "bucket_key"]

\* re.match(r'^s3://[a-z0-9\-\.]+/.+$', s3_uri)
validate_s3_uri(s3_uri) ==
    /\ s3_uri.scheme = "s3"
    /\ s3_uri.bucket = "input-bucket"
    /\ s3_uri.key # ""

\* os.path.splitext(key.lower())[1] on the keys of the model.
Extension(key) ==
    IF key = "videos/meeting.mp4" THEN ".mp4"
    ELSE IF key = "VIDEO.M4A" THEN ".m4a"
    ELSE IF key = "document.pdf" THEN ".pdf"
    ELSE ""

MEDIA_FORMAT_MAP ==
    [ext \in {".mp4", ".m4a", ".m4v"} |-> "mp4"]
    @@ [ext \in {".mp3", ".wav", ".flac", ".ogg", ".webm", ".amr"} |->
            SubSeq(ext, 2, Len(ext))]

NoFormat == "None"

get_media_format(key) ==
    IF Extension(key) \in DOMAIN MEDIA_FORMAT_MAP
    THEN MEDIA_FORMAT_MAP[Extension(key)]
    ELSE NoFormat

\* How start_transcription_job ends: the job is started; the job exists
\* already and its details are fetched; None is returned (a bad request,
\* another ClientError, or the existing job cannot be fetched); or the
\* error is raised (LimitExceededException, or an error that is not a
\* ClientError).
StartOutcomes == {"started", "existing", "None", "raise"}

\* How update_tracking_record ends: True, False (a ClientError), or an
\* error that is not a ClientError is raised.
UpdateRecordOutcomes == {"True", "False", "raise"}

InitStarterWith(events) ==
    /\ t_event \in events
    /\ t_pc = "idle"
    /\ t_calls = <<>>
    /\ job_details = "none"
    /\ update_success = "none"
    /\ t_status = None

InitStarter == InitStarterWith({CHOOSE ev \in StarterEvents : TRUE})

InitLambdas == InitHandler /\ InitStarter /\ open_throughout = TRUE

\* lambda_handler, lines 58-100 and 130-134: the event is parsed, the URI
\* validated, the media format looked up and the job started.
transcribe_lambda_handler ==
    /\ t_pc = "idle"
    /\ LET s3_uri == S3UriOf(t_event)
       IN IF UnparsedEvent(t_event)
          THEN /\ t_status' = 400
               /\ t_pc' = "returned"
               /\ UNCHANGED <<t_calls, job_details>>
          ELSE IF s3_uri.is_null
          THEN /\ t_status' = 500
               /\ t_pc' = "returned"
               /\ UNCHANGED <<t_calls, job_details>>
          ELSE IF ~validate_s3_uri(s3_uri)
                   \/ get_media_format(s3_uri.key) = NoFormat
          THEN /\ t_status' = 400
               /\ t_pc' = "returned"
               /\ UNCHANGED <<t_calls, job_details>>
          ELSE /\ t_calls' = <<"start_transcription_job">>
               /\ \E outcome \in StartOutcomes :
                    /\ job_details' = outcome
                    /\ IF outcome \in {"None", "raise"}
                       THEN t_status' = 500 /\ t_pc' = "returned"
                       ELSE t_pc' = "tracking" /\ UNCHANGED t_status
    /\ UNCHANGED <<t_event, update_success>>
    /\ UNCHANGED <<llmVars, parseVars, chunkVars, mainVars, finVars,
                   handlerVars, open_throughout>>

\* lambda_handler, lines 102-134: the tracking record is updated and the
\* response is returned.
update_tracking_record ==
    /\ t_pc = "tracking"
    /\ t_calls' = Append(t_calls, "update_tracking_record")
    /\ \E outcome \in UpdateRecordOutcomes :
         /\ update_success' = outcome
         /\ t_status' = IF outcome = "raise" THEN 500 ELSE 200
    /\ t_pc' = "returned"
    /\ UNCHANGED <<t_event, job_details>>
    /\ UNCHANGED <<llmVars, parseVars, chunkVars, mainVars, finVars,
                   handlerVars, open_throughout>>

\* The components a specification does not run, as constructed.
InitDocs ==
    /\ InitParser
    /\ InitChunker
    /\ InitMain
    /\ InitFinalizer
    /\ InitLambdas

\* The client and its collaborators as main builds them, at rest.
InitLlm ==
    /\ now = 0
    /\ InitClientBreaker
    /\ InitCall
    /\ InitClientLimiter
    /\ InitClient
    /\ InitPipeline

\* One call of TranscriptionParser._extract_segments.
InitParserSpec ==
    /\ InitLlm
    /\ InitParserWith(SeqsUpTo(ItemChoices, MaxItems))
    /\ InitChunker
    /\ InitMain
    /\ InitFinalizer
    /\ InitLambdas

NextParser == _extract_segments \/ _extract_segments_return

SpecParser == InitParserSpec /\ [][NextParser]_vars

\* One call of TranscriptionParser.chunk_transcription.
InitChunkerSpec ==
    /\ InitLlm
    /\ InitParser
    /\ InitChunkerWith(Transcripts(MaxSegments), MaxTokensPerChunkValues)
    /\ InitMain
    /\ InitFinalizer
    /\ InitLambdas

NextChunker ==
    chunk_transcription \/ _adaptive_chunking \/ _adaptive_chunking_return

SpecChunker == InitChunkerSpec /\ [][NextChunker]_vars

\* One run of the processor's main.
InitProcessorSpec ==
    /\ InitLlm
    /\ InitParser
    /\ InitChunker
    /\ InitMainSpec
    /\ InitFinalizer
    /\ InitLambdas

NextMain ==
    \/ step_1_load_config
    \/ step_3_update_processing
    \/ step_5_generate_document
    \/ main

SpecMain == InitProcessorSpec /\ [][NextMain]_vars

\* One invocation of the finalizer's lambda_handler.
InitHandlerSpec ==
    /\ InitLlm
    /\ InitParser
    /\ InitChunker
    /\ InitMain
    /\ InitFinalizerWith(0..MaxAttempts, BOOLEAN)
    /\ InitHandlerWith(FinalizerEvents)
    /\ InitStarter
    /\ open_throughout = TRUE

NextHandler ==
    \/ lambda_handler
    \/ tracking_step
    \/ publish_sns_notification
    \/ record_cloudwatch_metrics

SpecHandler == InitHandlerSpec /\ [][NextHandler]_vars

\* One invocation of the transcribe starter's lambda_handler.
InitStarterSpec ==
    /\ InitLlm
    /\ InitParser
    /\ InitChunker
    /\ InitMain
    /\ InitFinalizer
    /\ InitHandler
    /\ InitStarterWith(StarterEvents)
    /\ open_throughout = TRUE

NextStarter == transcribe_lambda_handler \/ update_tracking_record

SpecStarter == InitStarterSpec /\ [][NextStarter]_vars

\* One run of generate_document with the model calls of its stages taken
\* through the client's breaker and rate limiter.
InitGuardedSpec ==
    /\ InitLlm
    /\ InitDocs

NextGuarded ==
    \/ force_open_before_run
    \/ generate_document
    \/ _stage_1_clean_transcription
    \/ llm_stage_guarded
    \/ _stage_6_generate_outputs

SpecGuarded == InitGuardedSpec /\ [][NextGuarded]_vars

\* One call of the finalizer's update_tracking_with_retry.
InitFinalizerSpec ==
    /\ InitLlm
    /\ InitParser
    /\ InitChunker
    /\ InitMain
    /\ InitFinalizerWith(0..MaxAttempts, BOOLEAN)
    /\ InitLambdas

NextFinalizer == update_tracking_with_retry \/ update_item

SpecFinalizer == InitFinalizerSpec /\ [][NextFinalizer]_vars

Init ==
    /\ now = 0
    /\ InitBreaker
    /\ InitCall
    /\ InitClientLimiter
    /\ InitClient
    /\ InitPipeline
    /\ InitDocs

Next == call \/ force_open \/ force_reset \/ Tick

Spec == Init /\ [][Next]_vars

InitLimiterSpec ==
    /\ now = 0
    /\ InitClientBreaker
    /\ InitCall
    /\ InitLimiter
    /\ InitClient
    /\ InitPipeline
    /\ InitDocs

NextLimiter == acquire

SpecLimiter == InitLimiterSpec /\ [][NextLimiter]_vars

InitClientSpec ==
    /\ now = 0
    /\ InitClientBreaker
    /\ InitCall
    /\ InitClientLimiter
    /\ InitClientWith(0..MaxRetries)
    /\ InitPipeline
    /\ InitDocs

invoke == Invoke(MaxInvokes)

NextClient ==
    \/ invoke
    \/ invoke_with_json_output
    \/ invoke_with_streaming
    \/ invoke_acquire
    \/ invoke_attempt
    \/ reset_usage
    \/ force_open
    \/ force_reset

SpecClient == InitClientSpec /\ [][NextClient]_vars

\* The client alone, called up to MaxBurst times with no operator override
\* of its breaker.
invoke_burst == InvokeFrom("invoke", MaxBurst, {None}, BurstPromptLengths)

NextBurst == invoke_burst \/ invoke_acquire \/ invoke_attempt

InitBurstSpec ==
    /\ now = 0
    /\ InitClientBreaker
    /\ InitCall
    /\ InitClientLimiter
    /\ InitClient
    /\ InitPipeline
    /\ InitDocs

SpecBurst == InitBurstSpec /\ [][NextBurst]_vars

\* One run of DocumentGenerator.generate_document.
InitPipelineSpec ==
    /\ now = 0
    /\ InitClientBreaker
    /\ InitCall
    /\ InitClientLimiter
    /\ InitClient
    /\ InitPipelineWith(MaxTokensValues)
    /\ InitDocs

NextPipeline ==
    \/ generate_document
    \/ _stage_1_clean_transcription
    \/ _stage_2_extract_technical_content
    \/ _stage_3_map_solutions
    \/ _stage_4_structure_document
    \/ _stage_5_write_content
    \/ _stage_6_generate_outputs

SpecPipeline == InitPipelineSpec /\ [][NextPipeline]_vars

\* ------------------------------------------------------- circuit breaker
\* A step of BedrockCircuitBreaker.call.
IsCall == calls' = calls + 1

\* On entry the breaker is OPEN and fewer than `timeout` seconds have
\* passed since the last recorded failure.
CoolingDown ==
    /\ state = "OPEN"
    /\ last_failure_time # None
    /\ now - last_failure_time < timeout

\* The exception e matches one of the configured quota signatures.
QuotaClassified(e) ==
    e.name \in expected_errors \/ e.msg \cap expected_errors # {}

\* C1: once failure_threshold calls in a row have run the function and seen
\* it raise a quota-classified error the state is OPEN, and a call made
\* while the breaker is OPEN and before the timeout has elapsed raises
\* CircuitBreakerOpen without executing the function.
C1_OpenAfterThreshold ==
    /\ [](consec >= failure_threshold => state = "OPEN")
    /\ [][(IsCall /\ CoolingDown)
            => (raised' = CircuitBreakerOpen /\ ~executed')]_vars

C1_Witness ==
    /\ failure_threshold >= 2
    /\ consec = failure_threshold
    /\ failure_count = failure_threshold
    /\ state = "OPEN"
    /\ raised = CircuitBreakerOpen
    /\ ~executed

\* C2: a call that finds the breaker OPEN with at least `timeout` seconds
\* elapsed since the last recorded failure executes the function as a
\* HALF_OPEN trial, and if the function returns the state is CLOSED and
\* failure_count is 0.
C2_HalfOpenTrial ==
    [][(IsCall /\ state = "OPEN" /\ last_failure_time # None
          /\ now - last_failure_time >= timeout)
        => /\ executed'
           /\ run_state' = "HALF_OPEN"
           /\ (func_error' = NoError
                 => state' = "CLOSED" /\ failure_count' = 0)]_vars

C2_Witness ==
    /\ entry_state = "OPEN"
    /\ run_state = "HALF_OPEN"
    /\ executed
    /\ func_error = NoError
    /\ state = "CLOSED"
    /\ failure_count = 0

\* C3: when the function of a HALF_OPEN trial raises a quota-classified
\* error the breaker is OPEN again, the same error reaches the caller and
\* the cooldown restarts at the time of that failure, so calls are
\* rejected until a full `timeout` has passed since it.
C3_FailedTrialReopens ==
    /\ [][(IsCall /\ executed' /\ run_state' = "HALF_OPEN"
             /\ QuotaClassified(func_error'))
           => /\ state' = "OPEN"
              /\ raised' = func_error'
              /\ last_failure_time' = now']_vars
    /\ [][(IsCall /\ CoolingDown)
           => (raised' = CircuitBreakerOpen /\ ~executed'
                 /\ UNCHANGED last_failure_time)]_vars

C3_Witness ==
    /\ run_state = "HALF_OPEN"
    /\ executed
    /\ QuotaClassified(func_error)
    /\ raised = func_error
    /\ state = "OPEN"
    /\ last_failure_time = now
    /\ failure_count > failure_threshold

\* C4 as stated: a call that finds the breaker cooling down is rejected with
\* time_remaining = timeout - elapsed, so 0 < time_remaining <= timeout,
\* the function is not executed and state, failure_count and
\* last_failure_time are unchanged.
C4_RejectedRemaining_Stated ==
    [][(IsCall /\ CoolingDown)
        => /\ raised' = CircuitBreakerOpen
           /\ ~executed'
           /\ time_remaining' = timeout - (now - last_failure_time)
           /\ 0 < time_remaining'
           /\ time_remaining' <= timeout
           /\ UNCHANGED <<state, failure_count, last_failure_time>>]_vars

\* C4 amended: time_remaining is computed from a second clock read, made
\* after the admission check: it is timeout minus the time elapsed at that
\* read, at most timeout, and positive when no time passed between the two
\* reads.
C4_RejectedRemaining ==
    [][(IsCall /\ CoolingDown)
        => /\ raised' = CircuitBreakerOpen
           /\ ~executed'
           /\ time_remaining' = timeout - (now' - last_failure_time)
           /\ time_remaining' <= timeout
           /\ (now' = now => 0 < time_remaining')
           /\ UNCHANGED <<state, failure_count, last_failure_time>>]_vars

C4_Witness ==
    /\ raised = CircuitBreakerOpen
    /\ ~executed
    /\ entry_state = "OPEN"
    /\ state = "OPEN"
    /\ time_remaining = timeout - (now - last_failure_time)
    /\ time_remaining >= 1

\* C5 as stated: a call moves the breaker from CLOSED to OPEN only when
\* failure_threshold quota-classified failures have occurred since the last
\* successful call.
C5_OpensOnlyOnConsecutive ==
    [][(IsCall /\ state = "CLOSED" /\ state' = "OPEN")
        => since_ok' >= failure_threshold]_vars

\* C6 as stated: when the function raises an error that matches no quota
\* signature the same error reaches the caller and state, failure_count
\* and last_failure_time are unchanged.
C6_OtherErrorFrame_Stated ==
    [][(IsCall /\ executed' /\ func_error' # NoError
          /\ ~QuotaClassified(func_error'))
        => /\ raised' = func_error'
           /\ UNCHANGED <<state, failure_count, last_failure_time>>]_vars

\* C6 amended: ... failure_count and last_failure_time are unchanged, and
\* state is unchanged except that a breaker found OPEN with its timeout
\* elapsed is left HALF_OPEN, the state the call was admitted in.
C6_OtherErrorFrame ==
    [][(IsCall /\ executed' /\ func_error' # NoError
          /\ ~QuotaClassified(func_error'))
        => /\ raised' = func_error'
           /\ state' = (IF state = "OPEN" THEN "HALF_OPEN" ELSE state)
           /\ UNCHANGED <<failure_count, last_failure_time>>]_vars

C6_Witness ==
    /\ executed
    /\ func_error # NoError
    /\ ~QuotaClassified(func_error)
    /\ raised = func_error
    /\ entry_state = "OPEN"
    /\ state = "HALF_OPEN"
    /\ failure_count >= failure_threshold

\* C7 as stated: once a call has run in HALF_OPEN and completed, by
\* returning or by raising any error, the breaker is no longer HALF_OPEN.
C7_OneTrial_Stated ==
    [][(IsCall /\ executed' /\ run_state' = "HALF_OPEN")
        => state' # "HALF_OPEN"]_vars

\* C7 amended: once a call has run in HALF_OPEN and completed by returning
\* or by raising a quota-classified error, the breaker is no longer
\* HALF_OPEN.
C7_OneTrial ==
    [][(IsCall /\ executed' /\ run_state' = "HALF_OPEN"
          /\ (func_error' = NoError \/ QuotaClassified(func_error')))
        => state' # "HALF_OPEN"]_vars

C7_Witness ==
    /\ executed
    /\ entry_state = "HALF_OPEN"
    /\ run_state = "HALF_OPEN"
    /\ func_error = NoError
    /\ state = "CLOSED"

\* ------------------------------------------------------------ rate limiter
\* The admissions among the first k whose timestamp lies in the 60 seconds
\* up to time t.
InWindow(k, t) ==
    {j \in 1..k : admissions[j][1] > t - Window /\ admissions[j][1] <= t}

RECURSIVE TokensOf(_)
TokensOf(S) ==
    IF S = {} THEN 0
    ELSE LET j == CHOOSE x \in S : TRUE
         IN admissions[j][2] + TokensOf(S \ {j})

\* C8: the acquire that follows requests_per_minute admissions returns only
\* when the oldest of them is at least 60 seconds old, so the 60 seconds up
\* to any admission hold at most requests_per_minute admissions.
C8_RequestWindow ==
    /\ \A i \in 1..Len(admissions) :
          i + requests_per_minute <= Len(admissions)
            => admissions[i + requests_per_minute][1]
                 >= admissions[i][1] + Window
    /\ \A k \in 1..Len(admissions) :
          Cardinality(InWindow(k, admissions[k][1])) <= requests_per_minute

C8_Witness ==
    /\ requests_per_minute >= 2
    /\ Len(admissions) = requests_per_minute + 1
    /\ called_at - admissions[1][1] < Window
    /\ called_at < now
    /\ now = admissions[1][1] + Window
    /\ Len(request_times) = requests_per_minute + 1

\* C9 as stated: when acquire returns, the token estimates recorded in the
\* trailing 60 seconds, its own included, sum to at most tokens_per_minute.
C9_TokenWindow ==
    TokensOf(InWindow(Len(admissions), now)) <= tokens_per_minute

\* ----------------------------------------------------------------- client
\* C10 as stated: the model.invoke calls made in any trailing 60 seconds
\* number at most requests_per_minute.
C10_IssuedWithinLimit ==
    Len(Trailing(issued, now)) <= requests_per_minute

\* Every step named a comes before every step named b in the trace.
Before(a, b) ==
    \A i, j \in 1..Len(trace) : (trace[i] = a /\ trace[j] = b) => i < j

Has(a) == \E i \in 1..Len(trace) : trace[i] = a

ThroughInvoke == entry \in {"invoke", "json"}

\* C11 as stated: invoke estimates the input tokens, calls
\* RateLimiter.acquire with the estimate and then makes the breaker-gated
\* model call, the acquisition of a call coming before the breaker's
\* admission decision for it.
C11_AcquireBeforeAdmission ==
    ThroughInvoke =>
        /\ Before("estimate", "acquire")
        /\ Before("acquire", "contact")
        /\ Before("acquire", "admit")
        /\ (Has("admit") /\ pc \in {"attempt", "idle"} => Has("acquire"))

\* C11 amended: invoke first takes the breaker's admission decision; an
\* admitted call then estimates the input tokens, calls RateLimiter.acquire
\* with that estimate and only then contacts the model; a rejected call
\* neither estimates nor acquires.
C11_InvokeOrder ==
    ThroughInvoke =>
        /\ Before("admit", "estimate")
        /\ Before("estimate", "acquire")
        /\ Before("acquire", "contact")
        /\ (Has("contact") => Has("acquire"))
        /\ (Has("acquire") => Has("admit") /\ Has("estimate"))
        /\ (Has("reject") => trace = <<"reject">>)
        /\ (Has("admit") /\ pc \in {"attempt", "idle"}
              => /\ Has("acquire")
                 /\ estimated_tokens = prompt_len \div 4
                 /\ request_times # <<>>
                 /\ (estimated_tokens > 0
                       => token_counts[Len(token_counts)][2]
                            = estimated_tokens))

C11_Witness ==
    /\ entry = "invoke"
    /\ pc = "idle"
    /\ entry_state = "OPEN"
    /\ run_state = "HALF_OPEN"
    /\ estimated_tokens = 2
    /\ trace = <<"admit", "estimate", "acquire", "contact", "sleep",
                 "contact">>

\* The call of invoke that ran last has ended by raising e.
InvokeRaised(e) ==
    /\ ThroughInvoke
    /\ pc = "idle"
    /\ executed
    /\ raised = e

Retryable(e) ==
    /\ e \in ModelErrors
    /\ e.name \notin {"ValidationException", "InvalidRequestException"}

\* C12: an invoke whose attempts all fail with a retryable error contacts
\* the model exactly max_retries times and raises the error of its last
\* attempt; attempt k+1 starts 2^k seconds after attempt k failed (k = 0, 1,
\* ...), and nothing is waited for after the last attempt; an invoke whose
\* attempt j succeeds has made exactly j attempts.
C12_RetrySchedule ==
    /\ [](ThroughInvoke =>
          /\ \A k \in 1..(Len(attempts) - 1) :
                attempts[k + 1] - attempts[k] = Pow2(k - 1)
          /\ Len(attempts) <= max_retries
          /\ (pc = "attempt"
                => /\ Len(attempts) < max_retries
                   /\ (attempts # <<>>
                         => now = attempts[Len(attempts)]
                                    + Pow2(Len(attempts) - 1)))
          /\ (pc = "idle" /\ attempts # <<>>
                => now = attempts[Len(attempts)])
          /\ \A e \in ModelErrors :
                (InvokeRaised(e) /\ Retryable(e))
                  => Len(attempts) = max_retries /\ last_exception = e)
    /\ [][(pc = "attempt" /\ pc' = "idle" /\ raised' = NoError)
            => /\ Len(attempts') = attempt + 1
               /\ contacts' = contacts + 1]_vars

C12_Witness ==
    /\ InvokeRaised([name |-> "ValueError", msg |-> {}])
    /\ max_retries = 3
    /\ Len(attempts) = 3
    /\ attempts[2] = attempts[1] + 1
    /\ attempts[3] = attempts[2] + 2
    /\ now = attempts[3]
    /\ contacts = 3

\* C13: an attempt of invoke that fails with an error whose type name
\* contains ValidationException or InvalidRequest ends the call at once: the
\* error is raised, no time is slept and the model has been contacted
\* exactly once more than before the attempt.
C13_ValidationNotRetried ==
    [][(pc = "attempt" /\ contacts' # contacts
          /\ last_exception'.name
               \in {"ValidationException", "InvalidRequestException"})
        => /\ pc' = "idle"
           /\ raised' = last_exception'
           /\ entry_raised' = last_exception'
           /\ now' = now
           /\ contacts' = contacts + 1
           /\ Len(attempts') = Len(attempts) + 1]_vars

C13_Witness ==
    /\ InvokeRaised([name |-> "InvalidRequestException", msg |-> {}])
    /\ max_retries = 3
    /\ Len(attempts) = 2
    /\ now = attempts[2]
    /\ trace = <<"admit", "estimate", "acquire", "contact", "sleep",
                 "contact">>

\* C14 as stated: while the breaker is OPEN and its cooldown has not
\* elapsed no request reaches the model endpoint, through invoke,
\* invoke_with_json_output or invoke_with_streaming.
C14_AllGated ==
    [][(state = "OPEN" /\ last_failure_time # None
          /\ now' - last_failure_time < timeout)
        => contacts' = contacts]_vars

\* C15 as stated: between calls the running total usage is the sum of the
\* TokenUsage values the calls returned since construction or the last
\* reset_usage; a call that raises leaves the running totals unchanged.
C15_UsageMatchesReturned ==
    pc = "idle" => total_usage = returned_usage

\* --------------------------------------------------------------- pipeline
\* Python's round(num / den) for whole num >= 0 and den > 0: to the nearest
\* integer, a tie to the even one.
PyRound(num, den) ==
    LET q == num \div den
        r == num % den
    IN IF 2 * r < den THEN q
       ELSE IF 2 * r > den THEN q + 1
       ELSE IF q % 2 = 0 THEN q ELSE q + 1

\* The executions of stage id.
ExecutionsOf(id) ==
    {k \in 1..Len(executions) : executions[k].stage_id = id}

\* C16 as stated: with M the configured maximum of output tokens, the model
\* call of stage 2 is made under the limit round(0.25 * M), that of stage 3
\* under round(0.50 * M), that of stage 4 under round(0.25 * M) and that of
\* stage 5 under M.
C16_StageBudgets ==
    /\ \A k \in ExecutionsOf(2) :
          executions[k].limit = PyRound(max_tokens, 4)
    /\ \A k \in ExecutionsOf(3) :
          executions[k].limit = PyRound(max_tokens, 2)
    /\ \A k \in ExecutionsOf(4) :
          executions[k].limit = PyRound(max_tokens, 4)
    /\ \A k \in ExecutionsOf(5) :
          executions[k].limit = max_tokens

\* The stage and the chunk of the i-th stage execution of a run over n
\* chunks in which stages 1 to 4 are run chunk after chunk and stage 5 once.
ExpectedStage(i, n) == IF i <= 4 * n THEN ((i - 1) % 4) + 1 ELSE 5

ExpectedChunk(i) == ((i - 1) \div 4) + 1

\* C17: in a run over n >= 1 chunks the stage executions are, in this
\* order, stages 1, 2, 3, 4 of chunk 1, then of chunk 2, and so on to chunk
\* n, then stage 5 once: stage 6 is reached only after these 4 * n + 1
\* executions.
C17_StageOrder ==
    (chunks >= 1 /\ p_pc # "idle") =>
        /\ \A i \in 1..Len(executions) :
              IF i <= 4 * chunks + 1
              THEN /\ executions[i].stage_id = ExpectedStage(i, chunks)
                   /\ (i <= 4 * chunks
                         => executions[i].chunk = ExpectedChunk(i))
              ELSE /\ i = 4 * chunks + 2
                   /\ executions[i].stage_id = 6
        /\ (next_stage = 6 => Len(executions) >= 4 * chunks + 1)
        /\ (next_stage \in 1..5 /\ p_pc = "running"
              => /\ Len(executions) <= 4 * chunks
                 /\ next_stage = ExpectedStage(Len(executions) + 1, chunks))

C17_Witness ==
    /\ chunks = 2
    /\ p_pc = "returned"
    /\ Len(executions) = 10
    /\ executions[4].chunk = 1
    /\ executions[5].stage_id = 1
    /\ executions[5].chunk = 2
    /\ executions[6].status = "failed"
    /\ Cardinality(ExecutionsOf(5)) = 1

\* C18 as stated: when stage 4 has failed and stage 5 is run on its null
\* output, generate_document does not return a result and no artifact is
\* written, whatever the model call of stage 5 returns.
C18_NullOutlineFails ==
    (\E k \in ExecutionsOf(5) : executions[k].input = "null")
        => p_pc # "returned" /\ s3_objects = {}

\* Stage 5 has ended with a failed StageResult and no output.
Stage5Failed ==
    \E k \in ExecutionsOf(5) :
        executions[k].status = "failed" /\ executions[k].output = "null"

\* C19: when stage 5 yields a failed StageResult with null output,
\* generate_document never returns a result, no stage-6 result is appended,
\* nothing is written to object storage, and the run ends by raising.
C19_FailedStage5Aborts ==
    /\ [](Stage5Failed
            => /\ p_pc # "returned"
               /\ s3_objects = {}
               /\ \A k \in 1..Len(stage_results) :
                     stage_results[k].stage_id # 6
               /\ ExecutionsOf(6) = {})
    /\ [][(Stage5Failed /\ p_pc = "running" /\ p_pc' # "running")
            => p_pc' = "raised"]_vars

C19_Witness ==
    /\ Stage5Failed
    /\ chunks = 2
    /\ p_pc = "raised"
    /\ s3_objects = {}
    /\ Len(stage_results) = 1
    /\ total_usage.input_tokens >= 6

\* C20 as stated: the stages of a result generate_document returns hold one
\* StageResult per stage execution of the run, in execution order, and
\* total_tokens is the summed token usage of all those executions.
C20_StagesAndTotals ==
    p_pc = "returned" =>
        /\ Len(stage_results) = Len(executions)
        /\ \A k \in 1..Len(stage_results) :
              /\ k <= Len(executions)
              /\ stage_results[k].stage_id = executions[k].stage_id
              /\ stage_results[k].tokens_used = executions[k].tokens_used
        /\ total_tokens = SumUsage(executions)

\* ---------------------------------------------------------------- chunker
AllSegments == [k \in 1..Len(segments) |-> k]

\* The segments of the k-th returned chunk without its leading overlap.
FreshSegments(k) ==
    SubSeq(out_chunks[k].segments, overlaps[k] + 1,
           Len(out_chunks[k].segments))

RECURSIVE ConcatFresh(_)
ConcatFresh(k) ==
    IF k = 0 THEN <<>> ELSE ConcatFresh(k - 1) \o FreshSegments(k)

\* The last j elements of a sequence.
Suffix(seq, j) == SubSeq(seq, Len(seq) - j + 1, Len(seq))

\* ov is the longest suffix of prev whose per-segment token estimates sum
\* to at most overlap_tokens.
LongestOverlap(ov, prev) ==
    /\ Len(ov) <= Len(prev)
    /\ ov = Suffix(prev, Len(ov))
    /\ SumSegmentTokens(ov) <= overlap_tokens
    /\ \A j \in 0..Len(prev) :
         SumSegmentTokens(Suffix(prev, j)) <= overlap_tokens
             => j <= Len(ov)

\* The loop of _adaptive_chunking is about to handle a segment that
\* follows a speaker change, with a chunk under way.
AtSpeakerChange ==
    /\ c_pc = "loop"
    /\ seg_i <= Len(segments)
    /\ seg_i' = seg_i + 1
    /\ current_chunk_segments # <<>>
    /\ seg_i > 1
    /\ segments[seg_i].speaker # segments[seg_i - 1].speaker

\* C21: a transcript whose estimated token count is at most
\* max_tokens_per_chunk comes back as exactly one chunk, with chunk_id 0,
\* total_chunks 1, every segment in order and no overlap.
C21_SingleChunk ==
    (c_pc = "returned" /\ TotalTokens <= max_tokens_per_chunk)
        => /\ Len(out_chunks) = 1
           /\ out_chunks[1].chunk_id = 0
           /\ out_chunks[1].total_chunks = 1
           /\ out_chunks[1].segments = AllSegments
           /\ overlaps = <<0>>

C21_Witness ==
    /\ c_pc = "returned"
    /\ TotalTokens <= max_tokens_per_chunk
    /\ Len(segments) >= 2
    /\ Len(out_chunks) = 1

\* C22: in a split into several chunks, the chunks without their leading
\* overlaps, put together in chunk order, are the original segments, each
\* once and in order (and so the joined text is the original text).
C22_Reconstruction ==
    (c_pc = "returned" /\ Len(out_chunks) >= 2)
        => /\ ConcatFresh(Len(out_chunks)) = AllSegments
           /\ JoinedLen(TextsOf(ConcatFresh(Len(out_chunks)))) = full_text
           /\ overlaps[1] = 0
           /\ \A k \in 2..Len(out_chunks) :
                SubSeq(out_chunks[k].segments, 1, overlaps[k])
                    = Suffix(out_chunks[k - 1].segments, overlaps[k])

C22_Witness ==
    /\ c_pc = "returned"
    /\ Len(out_chunks) >= 2
    /\ \E k \in 2..Len(out_chunks) : overlaps[k] > 0

\* C23: when the estimated token count exceeds max_tokens_per_chunk, the
\* recorded token count of every returned chunk is at most
\* max_tokens_per_chunk plus 10% of it.
C23_ChunkTokensBounded ==
    (c_pc = "returned" /\ TotalTokens > max_tokens_per_chunk)
        => \A k \in 1..Len(out_chunks) :
             10 * out_chunks[k].tokens <= 11 * max_tokens_per_chunk

\* C24: when the estimated token count exceeds max_tokens_per_chunk, at
\* least two chunks are returned.
C24_AtLeastTwoChunks ==
    (c_pc = "returned" /\ TotalTokens > max_tokens_per_chunk)
        => Len(out_chunks) >= 2

\* C25: every chunk after the first of a split starts with the longest
\* suffix of the chunk closed before it whose per-segment token estimates
\* sum to at most int(0.1 * max_tokens_per_chunk); the same holds of the
\* chunk under way.
C25_OverlapIsLongestSuffix ==
    /\ (c_pc = "returned" /\ TotalTokens > max_tokens_per_chunk) \/ c_pc = "loop"
         => \A k \in 2..Len(out_chunks) :
              LongestOverlap(SubSeq(out_chunks[k].segments, 1, overlaps[k]),
                             out_chunks[k - 1].segments)
    /\ (c_pc = "loop" /\ out_chunks # <<>>)
         => LongestOverlap(SubSeq(current_chunk_segments, 1, overlap_len),
                           out_chunks[Len(out_chunks)].segments)

C25_Witness ==
    /\ c_pc = "returned"
    /\ \E k \in 2..Len(out_chunks) :
         /\ overlaps[k] >= 2
         /\ overlaps[k] < Len(out_chunks[k - 1].segments)

\* C26 as stated: at a speaker change, with a chunk under way whose token
\* count is at least 80% of the even-share target, exactly 80% included,
\* the chunk is closed before the segment.
C26_BreakAtEightyPercent ==
    [][(AtSpeakerChange
          /\ 5 * current_chunk_tokens >= 4 * TargetTokensPerChunk)
         => Len(out_chunks') = Len(out_chunks) + 1]_vars

\* C26: at a speaker change, with a chunk under way whose token count is
\* more than 80% of the even-share target, the chunk is closed before the
\* segment.
C26_BreakAboveEightyPercent ==
    [][(AtSpeakerChange
          /\ 5 * current_chunk_tokens > 4 * TargetTokensPerChunk)
         => Len(out_chunks') = Len(out_chunks) + 1]_vars

C26_Witness ==
    \E k \in 1..Len(breaks) :
        /\ breaks[k].speaker
        /\ ~breaks[k].size
        /\ ~breaks[k].pause
        /\ breaks[k].split

\* C38: the chunks chunk_transcription returns are numbered 0, 1, ...,
\* n - 1 in list order, and every one carries total_chunks = n, the number
\* of chunks returned.
C38_ChunkIdsAndTotal ==
    c_pc = "returned"
        => \A k \in 1..Len(out_chunks) :
               /\ out_chunks[k].chunk_id = k - 1
               /\ out_chunks[k].total_chunks = Len(out_chunks)

\* ----------------------------------------------------------------- parser
\* C27: in every emitted segment all pronunciation items have the same
\* speaker (or all have none), and it is the segment's speaker label.
C27_OneSpeakerPerSegment ==
    \A k \in 1..Len(parsed) :
        \A w \in 1..Len(parsed[k].text) :
            items[parsed[k].text[w][1]].speaker = parsed[k].speaker

\* C34: every emitted segment has the start time of its first
\* pronunciation item and the end time of its last one, so that a segment
\* ends no later than the next one starts.
C34_SegmentTimes ==
    /\ \A k \in 1..Len(parsed) :
           /\ parsed[k].start_time = StartTime(parsed[k].text[1][1])
           /\ parsed[k].end_time =
                  EndTime(parsed[k].text[Len(parsed[k].text)][1])
    /\ \A k \in 1..(Len(parsed) - 1) :
           parsed[k].end_time <= parsed[k + 1].start_time

\* ---------------------------------------------------------------- breaker
\* C35: a CLOSED breaker has counted fewer failures than the threshold; an
\* OPEN or HALF_OPEN breaker has counted at least the threshold and has a
\* last failure time, so that its remaining cooldown is defined.
C35_StateAndCount ==
    /\ state = "CLOSED" => failure_count < failure_threshold
    /\ state \in {"OPEN", "HALF_OPEN"} =>
           /\ failure_count >= failure_threshold
           /\ last_failure_time # None

\* A trial call has failed on an error that is not counted: the breaker
\* rests in HALF_OPEN.
C35_Witness ==
    /\ state = "HALF_OPEN"
    /\ entry_state = "OPEN"
    /\ executed
    /\ failure_count >= failure_threshold

\* ----------------------------------------------------------------- client
\* C33: the attempts of one invoke are retried without touching the
\* breaker; when the invoke ends, failure_count has grown by at most one,
\* and by one exactly when the error that leaves the call, the one of its
\* last attempt, is quota-classified; an invoke that ends with a successful
\* attempt is a success for the breaker, which notes the time and, on a
\* trial call, closes.
C33_OneFailurePerInvoke ==
    /\ [][(pc = "attempt" /\ pc' = "attempt")
            => UNCHANGED <<state, failure_count, last_failure_time,
                           last_success_time>>]_vars
    /\ [][(ThroughInvoke /\ pc \in {"acquire", "attempt"} /\ pc' = "idle")
            => /\ failure_count' <= failure_count + 1
               /\ (failure_count' = failure_count + 1
                     <=> (raised' # NoError /\ QuotaClassified(raised')))
               /\ (raised' # NoError /\ pc = "attempt")
                     => raised' = last_exception'
               /\ raised' = NoError
                     => /\ last_success_time' = now'
                        /\ failure_count' =
                             IF run_state = "HALF_OPEN" THEN 0
                             ELSE failure_count
                        /\ state' = "CLOSED"]_vars

\* An invoke has raised a quota-classified error after three attempts, and
\* the breaker has counted one failure.
C33_Witness ==
    /\ InvokeRaised([name |-> "ThrottlingException", msg |-> {}])
    /\ Len(attempts) = 3
    /\ entry_state = "CLOSED"
    /\ failure_count = 1

\* C36: when an invoke that was given a temperature has ended, by a
\* return or by any exception, the model's temperature is the one it had
\* before the call.
C36_TemperatureRestored ==
    (ThroughInvoke /\ pc = "idle" /\ executed /\ temp_param # None)
        => temperature = original_temp

\* --------------------------------------------------------------- pipeline
\* C37: once _stage_5_write_content has returned, successful or failed,
\* the model's max_tokens is the one it had before the stage.
C37_MaxTokensRestored ==
    (\E k \in 1..Len(executions) : executions[k].stage_id = 5)
        => model_max_tokens = max_tokens

\* C39: whenever generate_document raises, no output object of the
\* execution has been written to the bucket.
C39_NoArtifactOnFailure ==
    p_pc = "raised" => s3_objects = {}

\* ------------------------------------------------------------------- main
Returned == m_pc \in {"returned", "exited"}

FailedTried ==
    tracking # <<>> /\ tracking[Len(tracking)].status = "FAILED"

\* C28 as stated: process_video_transcription returns a result with
\* statusCode 200, 400 or 500; 200 only if generate_document returned; 400
\* exactly when a required variable is missing, with no tracking update
\* tried; 500 on every other failure, after the update with status FAILED
\* was tried.
C28_ResultAndTracking ==
    /\ m_pc \in {"start", "configured", "processing", "returned", "exited"}
    /\ Returned
         => /\ result.statusCode \in {200, 400, 500}
            /\ result.statusCode = 200 => generated
            /\ result.statusCode = 400 <=> environ # RequiredVars
            /\ result.statusCode = 400 => tracking = <<>>
            /\ result.statusCode = 500 => FailedTried

\* C28: the same, but a failure with statusCode 500 is preceded by the
\* update with status FAILED only if the configuration had been loaded;
\* if load_config itself failed with another exception, no update is tried.
C28_ResultAndTrackingIfConfigured ==
    /\ m_pc \in {"start", "configured", "processing", "returned", "exited"}
    /\ Returned
         => /\ result.statusCode \in {200, 400, 500}
            /\ result.statusCode = 200 => generated
            /\ result.statusCode = 400 <=> environ # RequiredVars
            /\ result.statusCode = 400 => tracking = <<>>
            /\ (result.statusCode = 500 /\ config_loaded) => FailedTried
            /\ (result.statusCode = 500 /\ ~config_loaded)
                 => tracking = <<>>

C28_Witness ==
    /\ m_pc = "returned"
    /\ result.statusCode = 500
    /\ ~config_loaded
    /\ environ = RequiredVars

\* C29: the exit code is 0 on success, 1 on a configuration error, 2 on a
\* processing error and 3 on an unexpected error.
C29_ExitCodes ==
    m_pc = "exited"
        => exit_code =
             CASE result.error = "" -> 0
               [] result.error = "ConfigurationError" -> 1
               [] result.error = "ProcessingError" -> 2
               [] result.error = "InternalError" -> 3

\* -------------------------------------------------------------- finalizer
RetryableCodes == {"ProvisionedThroughputExceededException",
                   "ServiceUnavailable"}

LastUpdate == update_calls[Len(update_calls)]

\* C30: update_tracking_with_retry calls update_item at most max_attempts
\* times; every call but the last met a retryable ClientError and was
\* followed by exactly one sleep; it returns True at the first success,
\* raises a retryable error only at the max_attempts-th call, and raises
\* any other error at once, with no sleep after it.
C30_RetryPolicy ==
    /\ Len(update_calls) <= max_attempts
    /\ \A k \in 1..(Len(update_calls) - 1) :
         update_calls[k] \in RetryableCodes
    /\ f_pc = "try" => /\ Len(sleeps) = Len(update_calls)
                       /\ update_calls = <<>>
                              \/ LastUpdate \in RetryableCodes
    /\ (f_pc = "done" /\ update_calls # <<>>)
         => /\ Len(sleeps) = Len(update_calls) - 1
            /\ f_outcome = (IF LastUpdate = "ok" THEN "True" ELSE LastUpdate)
            /\ LastUpdate \in RetryableCodes
                 => Len(update_calls) = max_attempts
    /\ (f_pc = "done" /\ update_calls = <<>>)
         => f_outcome = "False" /\ sleeps = <<>>

C30_Witness ==
    /\ f_pc = "done"
    /\ max_attempts >= 2
    /\ Len(update_calls) = max_attempts
    /\ LastUpdate \in RetryableCodes
    /\ Len(sleeps) = max_attempts - 1


\* ------------------------------------------------ finalizer lambda_handler
HandlerSteps ==
    <<"update_tracking_with_retry", "publish_sns_notification",
      "record_cloudwatch_metrics">>

\* The handler has answered 200 after calling the three steps once each, in
\* order, and every flag of the response tells whether its step returned
\* True.
AllStepsReported ==
    /\ l_steps = HandlerSteps
    /\ l_status = 200
    /\ l_results.tracking_updated = (f_outcome = "True")
    /\ l_results.tracking_updated = (l_returns.tracking_updated = "True")
    /\ l_results.notification_sent = (l_returns.notification_sent = "True")
    /\ l_results.metrics_recorded = (l_returns.metrics_recorded = "True")

ChecksFail ==
    \/ UnparsedEvent(t_event)
    \/ S3UriOf(t_event).is_null
    \/ ~validate_s3_uri(S3UriOf(t_event))
    \/ get_media_format(S3UriOf(t_event).key) = NoFormat

\* C32: when the event does not parse, the S3 URI is not valid or the media
\* format is not recognized, the handler answers 400 and calls neither
\* start_transcription_job nor update_tracking_record;
\* update_tracking_record is called only after start_transcription_job has
\* returned job details, and otherwise the answer is 500; a tracking update
\* that fails still gives 200.
C32_StartAfterChecks ==
    /\ (t_pc = "returned" /\ ChecksFail)
         => (t_status = 400 /\ t_calls = <<>>)
    /\ ChecksFail => t_calls = <<>>
    /\ (\E k \in 1..Len(t_calls) : t_calls[k] = "update_tracking_record")
         => /\ t_calls = <<"start_transcription_job",
                           "update_tracking_record">>
            /\ job_details \in {"started", "existing"}
    /\ (t_pc = "returned" /\ job_details \in {"None", "raise"})
         => (t_status = 500 /\ t_calls = <<"start_transcription_job">>)
    /\ (t_pc = "returned" /\ update_success \in {"False", "raise"})
         => t_status = 200

\* ------------------------------------------------ claims about a guarded run

\* The run of generate_document has ended, and at every model call of its
\* stages the breaker was OPEN with its cooldown not elapsed.
EndedWhileOpen ==
    /\ p_pc \in {"raised", "returned"}
    /\ open_throughout
    /\ state = "OPEN"
    /\ now - last_failure_time < timeout

\* C40: if the circuit breaker is OPEN with its cooldown not elapsed
\* throughout a generate_document run, then stages 2 to 5 each end with
\* status failed, no request reaches the model endpoint, no entry is added to
\* the rate-limiter window, the breaker's state and failure_count are as
\* force_open left them, and the run ends in failure with no artifact
\* written.
C40_OpenThroughoutRun ==
    EndedWhileOpen =>
        /\ \A i \in 1..Len(executions) :
              executions[i].stage_id \in 2..5 =>
                  executions[i].status = "failed"
        /\ contacts = 0
        /\ request_times = <<>>
        /\ token_counts = <<>>
        /\ failure_count = failure_threshold
        /\ last_failure_time = 0
        /\ last_success_time = None
        /\ p_pc = "raised"
        /\ s3_objects = {}

\* A single-chunk run whose stages 2, 3, 4 and 5 were all rejected by the
\* open breaker.
C40_Witness ==
    /\ EndedWhileOpen
    /\ chunks = 1
    /\ \A id \in 2..5 :
          \E i \in 1..Len(executions) : executions[i].stage_id = id

====
